---- MODULE Spec2Model ----
(***************************************************************************)
(* Dual-document suggested changes (otterleaf): a user document (baseline) *)
(* and a real document (the editor buffer), the character diff between     *)
(* them, the merge of adjacent diff entries, and accept / revert of one    *)
(* entry.  Documents are sequences of one-character strings; positions are *)
(* 0-based half-open offsets as in the TypeScript source.                  *)
(***************************************************************************)
EXTENDS Integers, Sequences, FiniteSets, TLC

\* ------------------------------------------------------------------ bounds
MaxLen == 3
MaxOps == 3
RunCap == 2
MaxDocLen == 1

Alphabet == {"a", "b"}

RECURSIVE StrOfLen(_)
StrOfLen(n) ==
    IF n = 0 THEN {<<>>}
    ELSE {<<c>> \o s : c \in Alphabet, s \in StrOfLen(n - 1)}

Str == UNION {StrOfLen(n) : n \in 0..MaxLen}

Min(x, y) == IF x < y THEN x ELSE y
Max(x, y) == IF x > y THEN x ELSE y

\* String.prototype.slice(from, to) for non-negative indices: both ends are
\* clamped to the length, and an inverted range is empty.
Slice(s, from, to) ==
    LET f == Min(Max(from, 0), Len(s))
        t == Min(Max(to, 0), Len(s))
    IN  IF f >= t THEN <<>> ELSE SubSeq(s, f + 1, t)

SliceFrom(s, from) == Slice(s, from, Len(s))

\* ----------------------------------------------------------- Diff Computer
\* The table of longest-common-subsequence lengths: row i holds, at j, the
\* length for a[i..] and b[j..] (1-based; the last row and the last column
\* are the empty suffixes).  The recursions halve their work so that the
\* evaluation stays shallow on the longer documents.

\* one more entry of the row of ch, to the left of the entries in row
LcsRowStep(below, ch, b, row) ==
    LET j == Len(b) + 1 - Len(row)
    IN  IF j < 1 THEN row
        ELSE <<IF ch = b[j] THEN 1 + below[j + 1] ELSE Max(below[j], row[1])>> \o row

\* n more entries, the first half before the second
RECURSIVE LcsRowWalk(_, _, _, _, _)
LcsRowWalk(below, ch, b, row, n) ==
    IF n <= 1 THEN LcsRowStep(below, ch, b, row)
    ELSE LET half == LcsRowWalk(below, ch, b, row, n \div 2)
         IN  IF Len(half) > 0 THEN LcsRowWalk(below, ch, b, half, n - (n \div 2))
             ELSE half

LcsRow(below, ch, b) == LcsRowWalk(below, ch, b, <<0>>, Len(b))

\* The rows of a[lo..hi] put before the rows of a[hi+1..], the upper half
\* after the lower half (halving keeps the evaluation shallow).
RECURSIVE LcsRows(_, _, _, _, _)
LcsRows(a, b, lo, hi, rows) ==
    IF lo > hi THEN rows
    ELSE IF lo = hi THEN <<LcsRow(rows[1], a[lo], b)>> \o rows
    ELSE LET mid == (lo + hi) \div 2
             lower == LcsRows(a, b, mid + 1, hi, rows)
         IN  IF Len(lower) > 0 THEN LcsRows(a, b, lo, mid, lower) ELSE lower

LcsTable(a, b) == LcsRows(a, b, 1, Len(a), <<[j \in 1..(Len(b) + 1) |-> 0]>>)

LcsLen(a, b) == LcsTable(a, b)[1][1]

\* The edit script of a longest common subsequence: one op per character,
\* "equal", "removed" (baseline only) or "added" (working only).  Between two
\* matches the removed characters come before the added ones.
\* the op at cell (i, j) of the table
EditOp(lcs, a, b, i, j) ==
    IF i > Len(a) THEN "added"
    ELSE IF j > Len(b) THEN "removed"
    ELSE IF a[i] = b[j] THEN "equal"
    ELSE IF lcs[i + 1][j] >= lcs[i][j + 1] THEN "removed"
    ELSE "added"

\* one step of the walk through the table from cell (i, j): the op of the
\* cell is appended and the walk moves on; at the end nothing changes
EditStep(lcs, a, b, st) ==
    IF st.i > Len(a) /\ st.j > Len(b) THEN st
    ELSE LET op == EditOp(lcs, a, b, st.i, st.j)
         IN  [i |-> IF op = "added" THEN st.i ELSE st.i + 1,
              j |-> IF op = "removed" THEN st.j ELSE st.j + 1,
              ops |-> Append(st.ops, [op |-> op,
                                      ch |-> IF op = "added" THEN b[st.j] ELSE a[st.i]])]

\* n steps of the walk, the first half before the second
RECURSIVE EditWalk(_, _, _, _, _)
EditWalk(lcs, a, b, st, n) ==
    IF n <= 1 THEN EditStep(lcs, a, b, st)
    ELSE LET half == EditWalk(lcs, a, b, st, n \div 2)
         IN  IF half.i > 0 THEN EditWalk(lcs, a, b, half, n - (n \div 2)) ELSE half

EditScript(a, b) ==
    EditWalk(LcsTable(a, b), a, b, [i |-> 1, j |-> 1, ops |-> <<>>],
             Len(a) + Len(b) + 1).ops

\* Maximal runs of ops of one type: <<[op, text]>>; the runs of the two
\* halves, joined where they meet in one type.
RECURSIVE RunsOf(_, _, _)
RunsOf(ops, lo, hi) ==
    IF lo > hi THEN <<>>
    ELSE IF lo = hi THEN <<[op |-> ops[lo].op, text |-> <<ops[lo].ch>>]>>
    ELSE LET mid == (lo + hi) \div 2
             left == RunsOf(ops, lo, mid)
             right == RunsOf(ops, mid + 1, hi)
             l == left[Len(left)]
         IN  IF l.op = right[1].op
             THEN SubSeq(left, 1, Len(left) - 1)
                  \o <<[op |-> l.op, text |-> l.text \o right[1].text]>>
                  \o Tail(right)
             ELSE left \o right

Runs(ops) == RunsOf(ops, 1, Len(ops))

NoId == <<"raw">>

InsertSpanWideBaseline(baselinePos, workingPos, text) ==
    [type |-> "insert", userFrom |-> baselinePos, userTo |-> baselinePos + Len(text),
     realFrom |-> workingPos, realTo |-> workingPos + Len(text),
     userText |-> <<>>, realText |-> text, id |-> NoId]

InsertSpan(baselinePos, workingPos, text) ==
    [type |-> "insert", userFrom |-> baselinePos, userTo |-> baselinePos,
     realFrom |-> workingPos, realTo |-> workingPos + Len(text),
     userText |-> <<>>, realText |-> text, id |-> NoId]

DeleteSpan(baselinePos, workingPos, text) ==
    [type |-> "delete", userFrom |-> baselinePos, userTo |-> baselinePos + Len(text),
     realFrom |-> workingPos, realTo |-> workingPos,
     userText |-> text, realText |-> <<>>, id |-> NoId]

\* Walk the runs with the two cursors: an added run is an Insert span, a
\* removed run a Delete span, an equal run advances both cursors.
RECURSIVE SpansOfRuns(_, _, _)
SpansOfRuns(runs, baselinePos, workingPos) ==
    IF runs = <<>> THEN <<>>
    ELSE LET r == Head(runs)
             n == Len(r.text)
         IN  CASE r.op = "added" ->
                    <<InsertSpan(baselinePos, workingPos, r.text)>>
                    \o SpansOfRuns(Tail(runs), baselinePos, workingPos + n)
               [] r.op = "removed" ->
                    <<DeleteSpan(baselinePos, workingPos, r.text)>>
                    \o SpansOfRuns(Tail(runs), baselinePos + n, workingPos)
               [] OTHER ->
                    SpansOfRuns(Tail(runs), baselinePos + n, workingPos + n)

computeDiffSkipCursor(baseline, working) ==
    LET raw == SpansOfRuns(Runs(EditScript(baseline, working)), 0, 0)
    IN  [i \in 1..Len(raw) |->
            IF raw[i].type = "insert" /\ i > 1
            THEN [raw[i] EXCEPT !.userFrom = raw[i].realFrom, !.userTo = raw[i].realFrom]
            ELSE raw[i]]

computeDiff(baseline, working) ==
    SpansOfRuns(Runs(EditScript(baseline, working)), 0, 0)

\* Apply spans to a baseline text, last span first, each replacing its
\* baseline range by its working-side text.
RECURSIVE ApplySpans(_, _)
ApplySpans(text, spans) ==
    IF spans = <<>> THEN text
    ELSE LET s == spans[Len(spans)]
         IN  ApplySpans(Slice(text, 0, s.userFrom) \o s.realText \o SliceFrom(text, s.userTo),
                        SubSeq(spans, 1, Len(spans) - 1))

\* ------------------------------------------------------------ Span Merger
SpanIdOfKind(s) == <<s.type>>

\* The content-derived id of a span: a function of kind, positions and texts.
SpanId(s) ==
    <<s.type, s.userFrom, s.userTo, s.realFrom, s.realTo, s.userText, s.realText>>

Adjacent(current, next) ==
    current.realTo = next.realFrom /\ current.userTo = next.userFrom

CoLocated(current, next) ==
    current.userFrom = next.userFrom /\ current.realFrom = next.realFrom

CanMergeNearby(current, next) ==
    \/ Adjacent(current, next)
    \/ CoLocated(current, next)
    \/ next.userFrom - current.userTo <= 1

CanMerge(current, next) == Adjacent(current, next) \/ CoLocated(current, next)

MergePairKeepFirstText(current, next) ==
    [current EXCEPT !.userTo = next.userTo, !.realTo = next.realTo,
                    !.type = IF current.type = next.type THEN current.type ELSE "replace"]

\* The merge outcome of the accumulator and the next span, by kind pair.
MergePair(current, next) ==
    CASE current.type = "delete" /\ next.type = "insert" ->
            [type |-> "replace",
             userFrom |-> current.userFrom, userTo |-> current.userTo,
             realFrom |-> next.realFrom, realTo |-> next.realTo,
             userText |-> current.userText, realText |-> next.realText, id |-> NoId]
      [] current.type = "insert" /\ next.type = "delete" ->
            [type |-> "replace",
             userFrom |-> next.userFrom, userTo |-> next.userTo,
             realFrom |-> current.realFrom, realTo |-> current.realTo,
             userText |-> next.userText, realText |-> current.realText, id |-> NoId]
      [] current.type = "insert" /\ next.type = "insert" ->
            [current EXCEPT !.realText = current.realText \o next.realText,
                            !.realTo = next.realTo]
      [] current.type = "delete" /\ next.type = "delete" ->
            [current EXCEPT !.userText = current.userText \o next.userText,
                            !.userTo = next.userTo]
      [] current.type = "replace" /\ next.type = "replace" ->
            [current EXCEPT !.userText = current.userText \o next.userText,
                            !.realText = current.realText \o next.realText,
                            !.userTo = next.userTo, !.realTo = next.realTo]
      [] current.type = "replace" /\ next.type = "insert" ->
            [current EXCEPT !.realText = current.realText \o next.realText,
                            !.realTo = next.realTo]
      [] current.type = "replace" /\ next.type = "delete" ->
            [current EXCEPT !.userText = current.userText \o next.userText,
                            !.userTo = next.userTo]
      [] current.type = "insert" /\ next.type = "replace" ->
            [next EXCEPT !.realText = current.realText \o next.realText,
                         !.realFrom = current.realFrom]
      [] OTHER ->  \* delete + replace
            [next EXCEPT !.userText = current.userText \o next.userText,
                         !.userFrom = current.userFrom]

\* Flushing the accumulator assigns it its id.
Flush(current) == [current EXCEPT !.id = SpanId(current)]

\* a merge without the running accumulator: a merged pair is flushed at once
RECURSIVE MergeFromPairwise(_, _, _)
MergeFromPairwise(current, rest, out) ==
    IF rest = <<>> THEN Append(out, Flush(current))
    ELSE IF CanMerge(current, Head(rest))
         THEN IF Tail(rest) = <<>>
              THEN Append(out, Flush(MergePair(current, Head(rest))))
              ELSE MergeFromPairwise(Head(Tail(rest)), Tail(Tail(rest)),
                                     Append(out, Flush(MergePair(current, Head(rest)))))
    ELSE MergeFromPairwise(Head(rest), Tail(rest), Append(out, Flush(current)))

RECURSIVE MergeFrom(_, _, _)
MergeFrom(current, rest, out) ==
    IF rest = <<>> THEN Append(out, Flush(current))
    ELSE IF CanMerge(current, Head(rest))
         THEN MergeFrom(MergePair(current, Head(rest)), Tail(rest), out)
    ELSE MergeFrom(Head(rest), Tail(rest), Append(out, Flush(current)))

merge(raw) ==
    IF raw = <<>> THEN <<>> ELSE MergeFrom(raw[1], Tail(raw), <<>>)

\* ------------------------------------------------- pure-function harness
\* Raw span lists beyond the ones computeDiff returns: any edit script of
\* one-character ops, also with non-maximal runs and raw Replace spans.
ScriptOps ==
    [op : {"equal", "added", "removed"}, ch : Alphabet, to : {"-"}]
    \cup {r \in [op : {"replaced"}, ch : Alphabet, to : Alphabet] : r.ch # r.to}

RECURSIVE ScriptsOfLen(_)
ScriptsOfLen(n) ==
    IF n = 0 THEN {<<>>}
    ELSE {<<o>> \o s : o \in ScriptOps, s \in ScriptsOfLen(n - 1)}

Scripts == UNION {ScriptsOfLen(n) : n \in 1..MaxOps}

RECURSIVE ScriptBaseline(_)
ScriptBaseline(script) ==
    IF script = <<>> THEN <<>>
    ELSE (IF Head(script).op = "added" THEN <<>> ELSE <<Head(script).ch>>)
         \o ScriptBaseline(Tail(script))

RECURSIVE ScriptWorking(_)
ScriptWorking(script) ==
    IF script = <<>> THEN <<>>
    ELSE (CASE Head(script).op = "removed" -> <<>>
            [] Head(script).op = "replaced" -> <<Head(script).to>>
            [] OTHER -> <<Head(script).ch>>)
         \o ScriptWorking(Tail(script))

RECURSIVE ScriptSpans(_, _, _)
ScriptSpans(script, baselinePos, workingPos) ==
    IF script = <<>> THEN <<>>
    ELSE LET o == Head(script)
         IN  CASE o.op = "added" ->
                    <<InsertSpan(baselinePos, workingPos, <<o.ch>>)>>
                    \o ScriptSpans(Tail(script), baselinePos, workingPos + 1)
               [] o.op = "removed" ->
                    <<DeleteSpan(baselinePos, workingPos, <<o.ch>>)>>
                    \o ScriptSpans(Tail(script), baselinePos + 1, workingPos)
               [] o.op = "replaced" ->
                    <<[type |-> "replace",
                       userFrom |-> baselinePos, userTo |-> baselinePos + 1,
                       realFrom |-> workingPos, realTo |-> workingPos + 1,
                       userText |-> <<o.ch>>, realText |-> <<o.to>>, id |-> NoId]>>
                    \o ScriptSpans(Tail(script), baselinePos + 1, workingPos + 1)
               [] OTHER ->
                    ScriptSpans(Tail(script), baselinePos + 1, workingPos + 1)

VARIABLES userDocument, realDocument, isAiDiffMode, diffs,
          contextSet, view, last, run

storeVars == <<userDocument, realDocument, isAiDiffMode, diffs,
               contextSet, view, last, run>>

VARIABLES argBaseline, argWorking, argScript, rawSpans, mergedSpans, pcDiff

diffVars == <<argBaseline, argWorking, argScript, rawSpans, mergedSpans, pcDiff>>

\* the per-file registry: for each document id its user document, real
\* document, tracking flag and published list; and the id of the document
\* the editor shows
VARIABLES fileAiDiffStates, currentDocumentId

docVars == <<fileAiDiffStates, currentDocumentId>>

NoDocument == "none"

DocsIdle ==
    /\ fileAiDiffStates = <<>>
    /\ currentDocumentId = NoDocument

\* one call of applyToEditor or revertFromEditor, step by step: the
\* isApplyingChangeRef flag, the position in the call, the diff entry it was
\* given, and the recomputations it has caused
VARIABLES isApplyingChangeRef, pcBridge, bridgeCall, recomputations

bridgeVars == <<isApplyingChangeRef, pcBridge, bridgeCall, recomputations>>

BridgeIdle ==
    /\ isApplyingChangeRef = FALSE
    /\ pcBridge = "idle"
    /\ bridgeCall = <<>>
    /\ recomputations = 0

\* the last call of suggestChange or replaceText through the editor API:
\* which one, what it returned, and whether it dispatched a change to the
\* editor view
VARIABLES apiCall

apiVars == <<apiCall>>

NoCall == [op |-> "none", result |-> "none", dispatched |-> FALSE]

ApiIdle == apiCall = NoCall

\* the iframe API: the flag window.iframeApiInitialized, how many times
\* handleMessage is registered for message events, whether window.overleafEditorApi is
\* there, how many messages windows have posted, the message events not yet
\* dispatched, the editor API methods invoked, the results handleApiCall has
\* resolved to, and the responses posted back
VARIABLES iframeApiInitialized, messageListeners, overleafEditorApi, posted,
          inbox, invoked, pending, responses

iframeVars ==
    <<iframeApiInitialized, messageListeners, overleafEditorApi, posted,
      inbox, invoked, pending, responses>>

IframeIdle ==
    /\ iframeApiInitialized = FALSE
    /\ messageListeners = 0
    /\ overleafEditorApi = TRUE
    /\ posted = 0
    /\ inbox = {}
    /\ invoked = {}
    /\ pending = {}
    /\ responses = {}

\* the event form of the editor API: whether handleApiEvent is registered for
\* the request events, and the calls made through editorApi, the request id
\* of a call being its place in the sequence
VARIABLES apiEventListener, calls

eventVars == <<apiEventListener, calls>>

EventIdle ==
    /\ apiEventListener = FALSE
    /\ calls = <<>>

\* a window that calls the iframe API: its listenForResponse calls, the callId
\* of a call being its place in the sequence
VARIABLES listens

clientVars == <<listens>>

ClientIdle == listens = <<>>

\* the patch list of the suggested-changes provider: the original document,
\* the suggested changes, how many were added (the id of a change is its
\* number), and the id the last call was given when it was an acceptChange
\* that left the document alone
VARIABLES originalDocument, suggestedChanges, changeCount, lastPatch

patchVars == <<originalDocument, suggestedChanges, changeCount, lastPatch>>

NoPatch == [op |-> "none", id |-> <<>>]

\* the hover controls of the editor extension: where the pointer is and
\* whether the event of its arrival is still to be dispatched, which widgets
\* are displayed, the module's currentVisibleWidget and hideTimeout, the
\* timers set and not yet run or cleared, how many were set, and for each
\* change the timer set when the pointer last left its text and widget
VARIABLES pointer, entering, display, currentVisibleWidget, hideTimeout,
          timers, timerCount, leftAt

hoverVars == <<pointer, entering, display, currentVisibleWidget, hideTimeout,
               timers, timerCount, leftAt>>

\* the changes decorated in the editor
HoverChanges == {"A", "B"}

Nowhere == [on |-> "outside", change |-> "none"]

HoverIdle ==
    /\ pointer = Nowhere
    /\ entering = FALSE
    /\ display = [c \in HoverChanges |-> FALSE]
    /\ currentVisibleWidget = "null"
    /\ hideTimeout = 0
    /\ timers = {}
    /\ timerCount = 0
    /\ leftAt = [c \in HoverChanges |-> 0]

\* the state of the parts a specification leaves alone
otherVars == <<eventVars, clientVars, patchVars, hoverVars>>

\* what the steps of one part leave alone of the others
eventRest == <<clientVars, patchVars, hoverVars>>

clientRest == <<eventVars, patchVars, hoverVars>>

patchRest == <<eventVars, clientVars, hoverVars>>

hoverRest == <<eventVars, clientVars, patchVars>>

\* the document the suggestions are made on
PatchDocument == <<"a", "b", "c">>

PatchIdle ==
    /\ originalDocument = PatchDocument
    /\ suggestedChanges = <<>>
    /\ changeCount = 0
    /\ lastPatch = NoPatch

OtherIdle == EventIdle /\ ClientIdle /\ PatchIdle /\ HoverIdle

DiffIdle ==
    /\ argBaseline = <<>>
    /\ argWorking = <<>>
    /\ argScript = <<>>
    /\ rawSpans = <<>>
    /\ mergedSpans = <<>>
    /\ pcDiff = "idle"

\* the documents of the concrete scenarios, one character per element
HelloWorld == <<"H", "e", "l", "l", "o", " ", "w", "o", "r", "l", "d">>

HiWorld == <<"H", "i", " ", "w", "o", "r", "l", "d">>

Abc == <<"a", "b", "c">>

AbXc == <<"a", "b", "X", "c">>

HelloWorldTest ==
    <<"H", "e", "l", "l", "o", " ", "w", "o", "r", "l", "d", ",", " ",
      "t", "e", "s", "t">>

\* "Hello" -> "Hi" at [0,5) and "world" -> "universe" at [6,11)
HiUniverseTest ==
    <<"H", "i", " ", "u", "n", "i", "v", "e", "r", "s", "e", ",", " ",
      "t", "e", "s", "t">>

\* two edits whose texts share no character with what they replace:
\* "Hello" -> "AB" at [0,5) and "world" -> "C" at [6,11)
AbCTest == <<"A", "B", " ", "C", ",", " ", "t", "e", "s", "t">>

Scenarios ==
    {[baseline |-> HelloWorld, working |-> HiWorld],
     [baseline |-> Abc, working |-> AbXc],
     [baseline |-> HelloWorldTest, working |-> HiUniverseTest],
     [baseline |-> HelloWorldTest, working |-> AbCTest]}

DiffInputs ==
    /\ \/ /\ argScript = <<>>
          /\ argBaseline \in Str
          /\ argWorking \in Str
       \/ /\ argScript = <<>>
          /\ \E sc \in Scenarios :
                /\ argBaseline = sc.baseline
                /\ argWorking = sc.working
       \/ /\ argScript \in Scripts
          /\ argBaseline = ScriptBaseline(argScript)
          /\ argWorking = ScriptWorking(argScript)
    /\ rawSpans = <<>>
    /\ mergedSpans = <<>>
    /\ pcDiff = "input"

RunComputeDiff ==
    /\ pcDiff = "input"
    /\ argScript = <<>>
    /\ rawSpans' = computeDiff(argBaseline, argWorking)
    /\ pcDiff' = "diffed"
    /\ UNCHANGED <<argBaseline, argWorking, argScript, mergedSpans>>
    /\ UNCHANGED storeVars
    /\ UNCHANGED docVars
    /\ UNCHANGED bridgeVars
    /\ UNCHANGED apiVars
    /\ UNCHANGED iframeVars
    /\ UNCHANGED otherVars

RunScript ==
    /\ pcDiff = "input"
    /\ argScript # <<>>
    /\ rawSpans' = ScriptSpans(argScript, 0, 0)
    /\ pcDiff' = "scripted"
    /\ UNCHANGED <<argBaseline, argWorking, argScript, mergedSpans>>
    /\ UNCHANGED storeVars
    /\ UNCHANGED docVars
    /\ UNCHANGED bridgeVars
    /\ UNCHANGED apiVars
    /\ UNCHANGED iframeVars
    /\ UNCHANGED otherVars

RunMerge ==
    /\ pcDiff \in {"diffed", "scripted"}
    /\ mergedSpans' = merge(rawSpans)
    /\ pcDiff' = "merged"
    /\ UNCHANGED <<argBaseline, argWorking, argScript, rawSpans>>
    /\ UNCHANGED storeVars
    /\ UNCHANGED docVars
    /\ UNCHANGED bridgeVars
    /\ UNCHANGED apiVars
    /\ UNCHANGED iframeVars
    /\ UNCHANGED otherVars

\* ------------------------------------------------------------ Change Store
\* One tracked document: the user document (baseline), the real document (the
\* editor buffer, mirrored by the store), the tracking flag and the published
\* diff list; whether the integration component has registered the context
\* with the editor API, and whether the CodeMirror view exists.
vars == <<diffVars, storeVars, docVars, bridgeVars, apiVars, iframeVars, otherVars>>

NoSpan ==
    [type |-> "none", userFrom |-> 0, userTo |-> 0, realFrom |-> 0, realTo |-> 0,
     userText |-> <<>>, realText |-> <<>>, id |-> NoId]

\* the current run of consecutive accepts (or of consecutive reverts): the
\* two documents when it began and how many spans it has resolved
NoRun == [kind |-> "none", user |-> <<>>, real |-> <<>>, n |-> 0]

RunStep(kind, hit) ==
    IF run.kind = kind
    THEN [run EXCEPT !.n = IF hit THEN Min(run.n + 1, RunCap) ELSE run.n]
    ELSE [kind |-> kind, user |-> userDocument, real |-> realDocument,
          n |-> IF hit THEN 1 ELSE 0]

\* what the last operation was, what it returned to its caller, and the
\* kind of the diff entry it found
LastOf(op, ok, hit) == [op |-> op, ok |-> ok, hit |-> hit.type]

RecomputeAlways(user, real, enabled) == merge(computeDiff(user, real))

RecomputeStaleWorking(user, real, enabled) ==
    IF enabled THEN merge(computeDiff(user, realDocument)) ELSE <<>>

RecomputeFreshIds(user, real, enabled) ==
    LET list == IF enabled THEN merge(computeDiff(user, real)) ELSE <<>>
    IN  [i \in 1..Len(list) |-> [list[i] EXCEPT !.id = Append(SpanId(list[i]), last.op)]]

\* The published list: merge(computeDiff(..)) while tracking is enabled, and
\* nothing while it is disabled.
Recompute(user, real, enabled) ==
    IF enabled THEN merge(computeDiff(user, real)) ELSE <<>>

FindNone(list, changeId) == NoSpan

\* prev.find(c => c.id === changeId): the first entry with the id, or none
Find(list, changeId) ==
    IF \E i \in 1..Len(list) : list[i].id = changeId
    THEN list[CHOOSE i \in 1..Len(list) :
                 /\ list[i].id = changeId
                 /\ \A j \in 1..(i - 1) : list[j].id # changeId]
    ELSE NoSpan

applyToEditorUserCoords(user, diff) ==
    Slice(user, 0, diff.userFrom) \o diff.realText \o SliceFrom(user, diff.userTo)

applyToEditorKeepRange(user, diff) ==
    IF diff.type = "insert"
    THEN Slice(user, 0, diff.realFrom) \o diff.realText \o SliceFrom(user, diff.realFrom)
    ELSE Slice(user, 0, diff.userFrom) \o diff.realText \o SliceFrom(user, diff.userFrom)

\* applyToEditor: the user document with the diff entry folded in
applyToEditor(user, diff) ==
    CASE diff.type = "insert" ->
            Slice(user, 0, diff.realFrom) \o diff.realText \o SliceFrom(user, diff.realFrom)
      [] diff.type = "delete" ->
            Slice(user, 0, diff.userFrom) \o SliceFrom(user, diff.userTo)
      [] diff.type = "replace" ->
            Slice(user, 0, diff.userFrom) \o diff.realText \o SliceFrom(user, diff.userTo)
      [] OTHER -> user

\* view.dispatch({changes: {from, to, insert}}): a RangeError unless
\* 0 <= from <= to <= doc.length
DispatchOk(doc, from, to) == 0 <= from /\ from <= to /\ to <= Len(doc)

Dispatch(doc, from, to, insert) ==
    SubSeq(doc, 1, from) \o insert \o SubSeq(doc, to + 1, Len(doc))

revertFromEditorUserCoords(doc, diff) ==
    [from |-> diff.userFrom, to |-> diff.userTo, insert |-> diff.userText]

\* revertFromEditor: the change dispatched to the editor
revertFromEditor(doc, diff) ==
    CASE diff.type = "insert" ->
            [from |-> diff.realFrom, to |-> diff.realTo, insert |-> <<>>]
      [] diff.type = "delete" ->
            [from |-> diff.realFrom, to |-> diff.realFrom, insert |-> diff.userText]
      [] OTHER ->
            [from |-> diff.realFrom, to |-> diff.realTo, insert |-> diff.userText]

\* the editor has loaded a document and the integration component is mounted
StoreLoaded ==
    /\ userDocument \in Str
    /\ realDocument = userDocument
    /\ isAiDiffMode = FALSE
    /\ diffs = <<>>
    /\ contextSet = TRUE
    /\ view = TRUE
    /\ last = LastOf("load", "none", NoSpan)
    /\ run = NoRun

StoreIdle ==
    /\ userDocument = <<>>
    /\ realDocument = <<>>
    /\ isAiDiffMode = FALSE
    /\ diffs = <<>>
    /\ contextSet = FALSE
    /\ view = FALSE
    /\ last = LastOf("idle", "none", NoSpan)
    /\ run = NoRun

openAiDiffKeepsBaseline(user, real) == user

\* the baseline openAiDiff starts from: the current editor content
openAiDiffBaseline(user, real) == real

\* openAiDiff: the current editor content becomes the user document; run
\* keeps the two documents it was opened on
OpenAiDiff ==
    /\ ~isAiDiffMode
    /\ isAiDiffMode' = TRUE
    /\ userDocument' = openAiDiffBaseline(userDocument, realDocument)
    /\ diffs' = Recompute(userDocument', realDocument, TRUE)
    /\ last' = LastOf("open", "none", NoSpan)
    /\ run' = [kind |-> "open", user |-> userDocument, real |-> realDocument, n |-> 0]
    /\ UNCHANGED <<realDocument, contextSet, view>>
    /\ UNCHANGED diffVars
    /\ UNCHANGED docVars
    /\ UNCHANGED bridgeVars
    /\ UNCHANGED apiVars
    /\ UNCHANGED iframeVars
    /\ UNCHANGED otherVars

CloseKeepsDiffs == diffs

CloseClearsDiffs == <<>>

\* closeAiDiff: tracking off, the published list is cleared
CloseAiDiff ==
    /\ isAiDiffMode
    /\ isAiDiffMode' = FALSE
    /\ diffs' = CloseClearsDiffs
    /\ last' = LastOf("close", "none", NoSpan)
    /\ run' = NoRun
    /\ UNCHANGED <<userDocument, realDocument, contextSet, view>>
    /\ UNCHANGED diffVars
    /\ UNCHANGED docVars
    /\ UNCHANGED bridgeVars
    /\ UNCHANGED apiVars
    /\ UNCHANGED iframeVars
    /\ UNCHANGED otherVars

\* the editor buffer changes (typing, or a suggested change applied to it):
\* the store takes the new working text and recomputes when tracking is on
EditorChange(text) ==
    /\ view
    /\ text # realDocument
    /\ realDocument' = text
    /\ diffs' = Recompute(userDocument, text, isAiDiffMode)
    /\ last' = LastOf("edit", "none", NoSpan)
    /\ run' = NoRun
    /\ UNCHANGED <<userDocument, isAiDiffMode, contextSet, view>>
    /\ UNCHANGED diffVars
    /\ UNCHANGED docVars
    /\ UNCHANGED bridgeVars
    /\ UNCHANGED apiVars
    /\ UNCHANGED iframeVars
    /\ UNCHANGED otherVars

\* editor-api acceptChange(changeId) -> context.acceptChange -> applyToEditor
\* -> setUserDocument -> recomputation
AcceptChange(changeId) ==
    LET diff == Find(diffs, changeId)
        user == applyToEditor(userDocument, diff)
    IN  /\ Len(user) <= MaxLen
        /\ IF ~contextSet
           THEN /\ last' = LastOf("accept", "false", NoSpan)
                /\ UNCHANGED <<userDocument, diffs>>
           ELSE IF diff = NoSpan \/ ~view
           THEN /\ last' = LastOf("accept", "true", NoSpan)
                /\ UNCHANGED <<userDocument, diffs>>
           ELSE /\ userDocument' = user
                /\ diffs' = Recompute(user, realDocument, isAiDiffMode)
                /\ last' = LastOf("accept", "true", diff)
        /\ run' = RunStep("accept", contextSet /\ view /\ diff # NoSpan)
        /\ UNCHANGED <<realDocument, isAiDiffMode, contextSet, view>>
        /\ UNCHANGED diffVars
        /\ UNCHANGED docVars
        /\ UNCHANGED bridgeVars
        /\ UNCHANGED apiVars
        /\ UNCHANGED iframeVars
        /\ UNCHANGED otherVars

\* editor-api rejectChange(changeId) -> context.revertChange ->
\* revertFromEditor -> view.dispatch -> the store takes the new working text
RejectChange(changeId) ==
    LET diff == Find(diffs, changeId)
        ch == revertFromEditor(realDocument, diff)
    IN  /\ Len(realDocument) - (ch.to - ch.from) + Len(ch.insert) <= MaxLen
        /\ IF ~contextSet
           THEN /\ last' = LastOf("revert", "false", NoSpan)
                /\ UNCHANGED <<realDocument, diffs>>
           ELSE IF diff = NoSpan \/ ~view
           THEN /\ last' = LastOf("revert", "true", NoSpan)
                /\ UNCHANGED <<realDocument, diffs>>
           ELSE IF ~DispatchOk(realDocument, ch.from, ch.to)
           THEN /\ last' = LastOf("revert", "false", diff)
                /\ UNCHANGED <<realDocument, diffs>>
           ELSE /\ realDocument' = Dispatch(realDocument, ch.from, ch.to, ch.insert)
                /\ diffs' = Recompute(userDocument, realDocument', isAiDiffMode)
                /\ last' = LastOf("revert", "true", diff)
        /\ run' = RunStep("revert", contextSet /\ view /\ diff # NoSpan
                                     /\ DispatchOk(realDocument, ch.from, ch.to))
        /\ UNCHANGED <<userDocument, isAiDiffMode, contextSet, view>>
        /\ UNCHANGED diffVars
        /\ UNCHANGED docVars
        /\ UNCHANGED bridgeVars
        /\ UNCHANGED apiVars
        /\ UNCHANGED iframeVars
        /\ UNCHANGED otherVars

clearAllKeepsWorking(user, real) == real

clearAllText(user, real) == user

\* clearAll: the working text is set to the baseline through the editor
ClearAll ==
    /\ view
    /\ realDocument' = clearAllText(userDocument, realDocument)
    /\ diffs' = Recompute(userDocument, realDocument', isAiDiffMode)
    /\ last' = LastOf("clearAll", "true", NoSpan)
    /\ run' = NoRun
    /\ UNCHANGED <<userDocument, isAiDiffMode, contextSet, view>>
    /\ UNCHANGED diffVars
    /\ UNCHANGED docVars
    /\ UNCHANGED bridgeVars
    /\ UNCHANGED apiVars
    /\ UNCHANGED iframeVars
    /\ UNCHANGED otherVars

\* the integration component unmounts: setGlobalSuggestedChangesContext(null)
UnmountIntegration ==
    /\ contextSet
    /\ contextSet' = FALSE
    /\ last' = LastOf("unmount", "none", NoSpan)
    /\ run' = NoRun
    /\ UNCHANGED <<userDocument, realDocument, isAiDiffMode, diffs, view>>
    /\ UNCHANGED diffVars
    /\ UNCHANGED docVars
    /\ UNCHANGED bridgeVars
    /\ UNCHANGED apiVars
    /\ UNCHANGED iframeVars
    /\ UNCHANGED otherVars

\* the integration component mounts: it registers the context, and its
\* initialisation effect takes the editor content as both documents when the
\* content differs from the user document
MountIntegration ==
    /\ ~contextSet
    /\ contextSet' = TRUE
    /\ IF view /\ realDocument # userDocument
       THEN /\ userDocument' = realDocument
            /\ diffs' = Recompute(realDocument, realDocument, isAiDiffMode)
       ELSE UNCHANGED <<userDocument, diffs>>
    /\ last' = LastOf("mount", "none", NoSpan)
    /\ run' = NoRun
    /\ UNCHANGED <<realDocument, isAiDiffMode, view>>
    /\ UNCHANGED diffVars
    /\ UNCHANGED docVars
    /\ UNCHANGED bridgeVars
    /\ UNCHANGED apiVars
    /\ UNCHANGED iframeVars
    /\ UNCHANGED otherVars

\* the CodeMirror view goes away / comes back
SetView(present) ==
    /\ view # present
    /\ view' = present
    /\ last' = LastOf("view", "none", NoSpan)
    /\ run' = NoRun
    /\ UNCHANGED <<userDocument, realDocument, isAiDiffMode, diffs, contextSet>>
    /\ UNCHANGED diffVars
    /\ UNCHANGED docVars
    /\ UNCHANGED bridgeVars
    /\ UNCHANGED apiVars
    /\ UNCHANGED iframeVars
    /\ UNCHANGED otherVars

UnknownId == <<"unknown">>

\* ids a caller may hold: those of the published list, one of no list at
\* all, and those of one-character spans at the start of the document, which
\* are stale whenever the published list does not hold them
CallerIds ==
    {diffs[i].id : i \in 1..Len(diffs)}
    \cup {UnknownId}
    \cup {SpanId(InsertSpan(0, 0, <<c>>)) : c \in Alphabet}
    \cup {SpanId(DeleteSpan(0, 0, <<c>>)) : c \in Alphabet}

Init == StoreLoaded /\ DiffIdle /\ DocsIdle /\ BridgeIdle /\ ApiIdle /\ IframeIdle /\ OtherIdle

Next ==
    \/ OpenAiDiff
    \/ CloseAiDiff
    \/ \E text \in Str : EditorChange(text)
    \/ \E changeId \in CallerIds : AcceptChange(changeId)
    \/ \E changeId \in CallerIds : RejectChange(changeId)
    \/ ClearAll
    \/ UnmountIntegration
    \/ MountIntegration
    \/ \E present \in BOOLEAN : SetView(present)

Spec == Init /\ [][Next]_vars

\* ------------------------------------------------------------------ claims
\* the edit distance between two texts: characters outside a longest
\* common subsequence
Distance(a, b) == Len(a) + Len(b) - 2 * LcsLen(a, b)

Known(changeId) == Find(diffs, changeId) # NoSpan

BridgeAvailable == contextSet /\ view

\* an accept step that found its span, and a revert step that found its
\* span, with the context registered and the view present
AcceptStep(changeId) == AcceptChange(changeId) /\ Known(changeId) /\ BridgeAvailable

RevertStep(changeId) == RejectChange(changeId) /\ Known(changeId) /\ BridgeAvailable

\* C3: accept of a pending span sets the baseline to
\* baseline[0:baselineFrom] + span.workingText + baseline[baselineTo:].
AcceptFoldsAtBaselineRange ==
    [][\A changeId \in CallerIds :
          AcceptStep(changeId) =>
              LET s == Find(diffs, changeId)
              IN  userDocument' = Slice(userDocument, 0, s.userFrom) \o s.realText
                                  \o SliceFrom(userDocument, s.userTo)]_vars

RevertRoundTrip ==
    [][\A changeId \in CallerIds :
          (RevertStep(changeId) /\ Len(diffs) = 1) =>
              LET s == Find(diffs, changeId)
              IN  /\ realDocument' = Slice(realDocument, 0, s.realFrom) \o s.userText
                                     \o SliceFrom(realDocument, s.realTo)
                  /\ realDocument' = userDocument
                  /\ userDocument' = userDocument
                  /\ diffs' = <<>>]_vars

\* the single pending span, a Replace, has been reverted
RevertRoundTripWitness ==
    /\ last.op = "revert"
    /\ last.hit = "replace"
    /\ run.n = 1
    /\ run.real # run.user
    /\ Len(merge(computeDiff(run.user, run.real))) = 1
    /\ diffs = <<>>
    /\ realDocument = userDocument

\* C6: accepting the pending spans one at a time, in any order, ends after
\* finitely many accepts with baseline == working and an empty list: every
\* accept leaves the working text alone and brings the baseline strictly
\* closer to it, and the list is empty exactly when the two are equal.
AcceptAllConverges ==
    [][\A changeId \in CallerIds :
          AcceptStep(changeId) =>
              /\ realDocument' = realDocument
              /\ Distance(userDocument', realDocument') < Distance(userDocument, realDocument)
              /\ (diffs' = <<>>) <=> (userDocument' = realDocument')]_vars

\* C7: clearAll sets the working text to the baseline and empties the list;
\* reverting the pending spans one at a time, in any order, leaves the
\* baseline alone, brings the working text strictly closer to it at every
\* revert, and so ends in that same state.
ClearAllStep == last'.op = "clearAll"

ClearAllIsRevertAll ==
    /\ [][ClearAllStep =>
             /\ realDocument' = userDocument
             /\ userDocument' = userDocument
             /\ diffs' = <<>>]_vars
    /\ [][\A changeId \in CallerIds :
             RevertStep(changeId) =>
                 /\ userDocument' = userDocument
                 /\ Distance(userDocument', realDocument') < Distance(userDocument, realDocument)
                 /\ (diffs' = <<>>) <=> (userDocument' = realDocument')]_vars
    /\ [](run.kind = "revert" /\ run.n > 0 /\ diffs = <<>> =>
             /\ userDocument = run.user
             /\ realDocument = run.user)

\* two spans reverted one after the other, ending where clearAll ends
ClearAllIsRevertAllWitness ==
    /\ run.kind = "revert"
    /\ run.n = 2
    /\ diffs = <<>>
    /\ isAiDiffMode
    /\ realDocument = run.user

\* C8: accept or revert with an id that is not in the published list is
\* reported as a failure and changes neither document nor the list.
StaleIdIsReported ==
    [][\A changeId \in CallerIds :
          ((AcceptChange(changeId) \/ RejectChange(changeId))
             /\ ~Known(changeId) /\ BridgeAvailable) =>
              /\ last'.ok = "false"
              /\ UNCHANGED <<userDocument, realDocument, diffs>>]_vars

\* C9: a document whose tracking is disabled publishes no spans, whatever
\* its baseline and working text are.
TrackingSuppression == ~isAiDiffMode => diffs = <<>>

\* tracking was closed with the two documents different
TrackingSuppressionWitness ==
    /\ ~isAiDiffMode
    /\ last.op = "close"
    /\ userDocument # realDocument

InitDiff == DiffInputs /\ StoreIdle /\ DocsIdle /\ BridgeIdle /\ ApiIdle /\ IframeIdle /\ OtherIdle

NextDiff ==
    \/ RunComputeDiff
    \/ RunScript
    \/ RunMerge

SpecDiff == InitDiff /\ [][NextDiff]_vars

\* C1: applying the raw Insert/Delete spans of computeDiff(a, b) to a, in
\* position order and without merging, reconstructs exactly b.
DiffReconstructs ==
    (pcDiff \in {"diffed", "merged"} /\ argScript = <<>>) =>
        /\ ApplySpans(argBaseline, rawSpans) = argWorking
        /\ \A i \in 1..Len(rawSpans) : rawSpans[i].type \in {"insert", "delete"}
        /\ \A i \in 1..Len(rawSpans) :
              /\ rawSpans[i].userText = Slice(argBaseline, rawSpans[i].userFrom, rawSpans[i].userTo)
              /\ rawSpans[i].realText = Slice(argWorking, rawSpans[i].realFrom, rawSpans[i].realTo)
        /\ \A i \in 1..(Len(rawSpans) - 1) :
              /\ rawSpans[i].userTo <= rawSpans[i + 1].userFrom
              /\ rawSpans[i].realTo <= rawSpans[i + 1].realFrom

\* a diff with two spans, the second one an Insert past a Delete
DiffReconstructsWitness ==
    /\ pcDiff = "diffed"
    /\ argScript = <<>>
    /\ Len(rawSpans) >= 2
    /\ rawSpans[2].type = "insert"
    /\ rawSpans[2].userFrom # rawSpans[2].realFrom

BaselineFrame ==
    [][/\ (last'.op = "edit" /\ isAiDiffMode) => userDocument' = userDocument
       /\ userDocument' # userDocument => last'.op \in {"accept", "open", "mount"}
       /\ (last'.op = "mount" /\ isAiDiffMode /\ diffs # <<>>) =>
              userDocument' = userDocument]_vars

\* ------------------------------------------------- the per-file registry
\* One store per document id.  The operations are those of the single store,
\* addressed to a document: edits, accept and revert come from the editor and
\* address the document it shows; open, close and clearAll take a document id.
DocIds == {"test1", "test2"}

DocStr == UNION {StrOfLen(n) : n \in 0..MaxDocLen}

FileState(user, real, enabled) ==
    [userDocument |-> user, realDocument |-> real, isAiDiffMode |-> enabled,
     diffs |-> Recompute(user, real, enabled)]

storeOfCurrent(states, documentId, state) ==
    [states EXCEPT ![currentDocumentId] = state]

\* the registry with the state of one document replaced
storeOf(states, documentId, state) == [states EXCEPT ![documentId] = state]

DocsLoaded ==
    /\ fileAiDiffStates \in [DocIds -> {FileState(t, t, FALSE) : t \in DocStr}]
    /\ currentDocumentId \in DocIds

DocOpenAiDiff(documentId) ==
    LET f == fileAiDiffStates[documentId]
    IN  /\ ~f.isAiDiffMode
        /\ fileAiDiffStates' = storeOf(fileAiDiffStates, documentId,
               FileState(openAiDiffBaseline(f.userDocument, f.realDocument),
                         f.realDocument, TRUE))
        /\ UNCHANGED <<currentDocumentId, diffVars, storeVars, bridgeVars, apiVars, iframeVars, otherVars>>

DocCloseAiDiff(documentId) ==
    LET f == fileAiDiffStates[documentId]
    IN  /\ f.isAiDiffMode
        /\ fileAiDiffStates' = storeOf(fileAiDiffStates, documentId,
               FileState(f.userDocument, f.realDocument, FALSE))
        /\ UNCHANGED <<currentDocumentId, diffVars, storeVars, bridgeVars, apiVars, iframeVars, otherVars>>

DocSetWorkingText(documentId, text) ==
    LET f == fileAiDiffStates[documentId]
    IN  /\ documentId = currentDocumentId
        /\ text # f.realDocument
        /\ fileAiDiffStates' = storeOf(fileAiDiffStates, documentId,
               FileState(f.userDocument, text, f.isAiDiffMode))
        /\ UNCHANGED <<currentDocumentId, diffVars, storeVars, bridgeVars, apiVars, iframeVars, otherVars>>

DocAccept(documentId, changeId) ==
    LET f == fileAiDiffStates[documentId]
        diff == Find(f.diffs, changeId)
        user == applyToEditor(f.userDocument, diff)
    IN  /\ documentId = currentDocumentId
        /\ diff # NoSpan
        /\ Len(user) <= MaxDocLen
        /\ fileAiDiffStates' = storeOf(fileAiDiffStates, documentId,
               FileState(user, f.realDocument, f.isAiDiffMode))
        /\ UNCHANGED <<currentDocumentId, diffVars, storeVars, bridgeVars, apiVars, iframeVars, otherVars>>

DocRevert(documentId, changeId) ==
    LET f == fileAiDiffStates[documentId]
        diff == Find(f.diffs, changeId)
        ch == revertFromEditor(f.realDocument, diff)
    IN  /\ documentId = currentDocumentId
        /\ diff # NoSpan
        /\ DispatchOk(f.realDocument, ch.from, ch.to)
        /\ Len(f.realDocument) - (ch.to - ch.from) + Len(ch.insert) <= MaxDocLen
        /\ fileAiDiffStates' = storeOf(fileAiDiffStates, documentId,
               FileState(f.userDocument,
                         Dispatch(f.realDocument, ch.from, ch.to, ch.insert),
                         f.isAiDiffMode))
        /\ UNCHANGED <<currentDocumentId, diffVars, storeVars, bridgeVars, apiVars, iframeVars, otherVars>>

DocClearAll(documentId) ==
    LET f == fileAiDiffStates[documentId]
    IN  /\ f.diffs # <<>>
        /\ fileAiDiffStates' = storeOf(fileAiDiffStates, documentId,
               FileState(f.userDocument,
                         clearAllText(f.userDocument, f.realDocument),
                         f.isAiDiffMode))
        /\ UNCHANGED <<currentDocumentId, diffVars, storeVars, bridgeVars, apiVars, iframeVars, otherVars>>

\* the editor shows another document
SwitchDocument(documentId) ==
    /\ documentId # currentDocumentId
    /\ currentDocumentId' = documentId
    /\ UNCHANGED <<fileAiDiffStates, diffVars, storeVars, bridgeVars, apiVars, iframeVars, otherVars>>

DocChangeIds(documentId) ==
    {fileAiDiffStates[documentId].diffs[i].id :
        i \in 1..Len(fileAiDiffStates[documentId].diffs)}

InitDocs == DocsLoaded /\ StoreIdle /\ DiffIdle /\ BridgeIdle /\ ApiIdle /\ IframeIdle /\ OtherIdle

NextDocs ==
    \/ \E documentId \in DocIds : DocOpenAiDiff(documentId)
    \/ \E documentId \in DocIds : DocCloseAiDiff(documentId)
    \/ \E documentId \in DocIds : \E text \in DocStr : DocSetWorkingText(documentId, text)
    \/ \E documentId \in DocIds : \E changeId \in DocChangeIds(documentId) :
          DocAccept(documentId, changeId)
    \/ \E documentId \in DocIds : \E changeId \in DocChangeIds(documentId) :
          DocRevert(documentId, changeId)
    \/ \E documentId \in DocIds : DocClearAll(documentId)
    \/ \E documentId \in DocIds : SwitchDocument(documentId)

SpecDocs == InitDocs /\ [][NextDocs]_vars

\* an operation addressed to the document
DocStep(documentId) ==
    \/ DocOpenAiDiff(documentId)
    \/ DocCloseAiDiff(documentId)
    \/ \E text \in DocStr : DocSetWorkingText(documentId, text)
    \/ \E changeId \in DocChangeIds(documentId) : DocAccept(documentId, changeId)
    \/ \E changeId \in DocChangeIds(documentId) : DocRevert(documentId, changeId)
    \/ DocClearAll(documentId)

SpanIds(list) == [i \in 1..Len(list) |-> list[i].id]

ListBeforeRun == Recompute(run.user, run.real, TRUE)

\* a first accept or revert of a run has just resolved a span
JustResolved ==
    /\ isAiDiffMode
    /\ BridgeAvailable
    /\ last.op \in {"accept", "revert"}
    /\ last.ok = "true"
    /\ last.hit # "none"
    /\ run.n = 1

\* the ids of the spans that step can have resolved: spans of the list
\* before it, of the kind it found, whose fold or patch gives the present
\* documents
ResolvedIds ==
    {s.id : s \in
        {t \in {ListBeforeRun[i] : i \in 1..Len(ListBeforeRun)} :
            /\ t.type = last.hit
            /\ IF last.op = "accept"
               THEN applyToEditor(run.user, t) = userDocument
               ELSE LET ch == revertFromEditor(run.real, t)
                    IN  /\ DispatchOk(run.real, ch.from, ch.to)
                        /\ Dispatch(run.real, ch.from, ch.to, ch.insert) = realDocument}}

PublishedIds == {diffs[i].id : i \in 1..Len(diffs)}

StoreTracked ==
    /\ userDocument \in Str
    /\ realDocument \in Str
    /\ isAiDiffMode = TRUE
    /\ diffs = Recompute(userDocument, realDocument, TRUE)
    /\ contextSet = TRUE
    /\ view \in BOOLEAN
    /\ last = LastOf("edit", "none", NoSpan)
    /\ run = NoRun

\* `if (!view) return`: the callback returns before it touches the flag
ReturnWithoutView(changeId) ==
    /\ pcBridge = "idle"
    /\ ~view
    /\ Known(changeId)
    /\ last' = LastOf("noview", "true", NoSpan)
    /\ UNCHANGED <<userDocument, realDocument, isAiDiffMode, diffs, contextSet, view, run>>
    /\ UNCHANGED <<diffVars, docVars, bridgeVars, apiVars, iframeVars, otherVars>>

\* applyToEditor up to `isApplyingChangeRef.current = true`
BeginApplyToEditor(changeId) ==
    /\ pcBridge = "idle"
    /\ view
    /\ Known(changeId)
    /\ Len(applyToEditor(userDocument, Find(diffs, changeId))) <= MaxLen
    /\ isApplyingChangeRef' = TRUE
    /\ pcBridge' = "applyToEditor"
    /\ bridgeCall' = [kind |-> "accept", diff |-> Find(diffs, changeId)]
    /\ recomputations' = 0
    /\ UNCHANGED <<storeVars, diffVars, docVars, apiVars, iframeVars, otherVars>>

\* the `try` block of applyToEditor: the fold and setUserDocument
FoldBaseline ==
    /\ pcBridge = "applyToEditor"
    /\ userDocument' = applyToEditor(userDocument, bridgeCall.diff)
    /\ diffs' = Recompute(userDocument', realDocument, isAiDiffMode)
    /\ recomputations' = recomputations + 1
    /\ pcBridge' = "finally"
    /\ UNCHANGED <<realDocument, isAiDiffMode, contextSet, view, last, run>>
    /\ UNCHANGED <<isApplyingChangeRef, bridgeCall, diffVars, docVars, apiVars, iframeVars, otherVars>>

\* revertFromEditor up to `isApplyingChangeRef.current = true`
BeginRevertFromEditor(changeId) ==
    LET ch == revertFromEditor(realDocument, Find(diffs, changeId))
    IN  /\ pcBridge = "idle"
        /\ view
        /\ Known(changeId)
        /\ Len(realDocument) - (ch.to - ch.from) + Len(ch.insert) <= MaxLen
        /\ isApplyingChangeRef' = TRUE
        /\ pcBridge' = "revertFromEditor"
        /\ bridgeCall' = [kind |-> "revert", diff |-> Find(diffs, changeId)]
        /\ recomputations' = 0
        /\ UNCHANGED <<storeVars, diffVars, docVars, apiVars, iframeVars, otherVars>>

\* view.dispatch throws: the range is not one of the document, or the
\* editor rejects the transaction
DispatchThrows ==
    /\ pcBridge = "revertFromEditor"
    /\ pcBridge' = "finallyAfterThrow"
    /\ UNCHANGED <<storeVars, diffVars, docVars, apiVars, iframeVars, otherVars>>
    /\ UNCHANGED <<isApplyingChangeRef, bridgeCall, recomputations>>

\* view.dispatch changes the buffer and raises the change notification
DispatchApplies ==
    LET ch == revertFromEditor(realDocument, bridgeCall.diff)
    IN  /\ pcBridge = "revertFromEditor"
        /\ DispatchOk(realDocument, ch.from, ch.to)
        /\ pcBridge' = "notified"
        /\ UNCHANGED <<storeVars, diffVars, docVars, apiVars, iframeVars, otherVars>>
        /\ UNCHANGED <<isApplyingChangeRef, bridgeCall, recomputations>>

\* the change notification, raised inside view.dispatch while the flag is
\* set: the store takes the patched working text and recomputes
WorkingTextNotification ==
    LET ch == revertFromEditor(realDocument, bridgeCall.diff)
    IN  /\ pcBridge = "notified"
        /\ realDocument' = Dispatch(realDocument, ch.from, ch.to, ch.insert)
        /\ diffs' = Recompute(userDocument, realDocument', isAiDiffMode)
        /\ recomputations' = recomputations + 1
        /\ pcBridge' = "finally"
        /\ UNCHANGED <<userDocument, isAiDiffMode, contextSet, view, last, run>>
        /\ UNCHANGED <<isApplyingChangeRef, bridgeCall, diffVars, docVars, apiVars, iframeVars, otherVars>>

flagAfterCallNoFinally(threw) == threw

\* `finally { isApplyingChangeRef.current = false }`
flagAfterCall(threw) == FALSE

\* the `finally` block; the call returns, or the exception goes on to the
\* caller, which reports false
EndCall ==
    /\ pcBridge \in {"finally", "finallyAfterThrow"}
    /\ isApplyingChangeRef' = flagAfterCall(pcBridge = "finallyAfterThrow")
    /\ pcBridge' = "idle"
    /\ last' = LastOf(bridgeCall.kind,
                      IF pcBridge = "finallyAfterThrow" THEN "false" ELSE "true",
                      bridgeCall.diff)
    /\ UNCHANGED <<userDocument, realDocument, isAiDiffMode, diffs, contextSet, view, run>>
    /\ UNCHANGED <<bridgeCall, recomputations, diffVars, docVars, apiVars, iframeVars, otherVars>>

InitBridge == StoreTracked /\ DiffIdle /\ DocsIdle /\ BridgeIdle /\ ApiIdle /\ IframeIdle /\ OtherIdle

NextBridge ==
    \/ \E changeId \in CallerIds : ReturnWithoutView(changeId)
    \/ \E changeId \in CallerIds : BeginApplyToEditor(changeId)
    \/ FoldBaseline
    \/ \E changeId \in CallerIds : BeginRevertFromEditor(changeId)
    \/ DispatchThrows
    \/ DispatchApplies
    \/ WorkingTextNotification
    \/ EndCall

SpecBridge == InitBridge /\ [][NextBridge]_vars

\* how far a call is from its end
StepsLeft(pc) ==
    CASE pc = "idle" -> 0
      [] pc \in {"finally", "finallyAfterThrow"} -> 1
      [] pc = "notified" -> 2
      [] OTHER -> 3

SpansOrdered(list) ==
    /\ \A i \in 1..Len(list) :
          /\ 0 <= list[i].userFrom /\ list[i].userFrom <= list[i].userTo
          /\ 0 <= list[i].realFrom /\ list[i].realFrom <= list[i].realTo
    /\ \A i \in 1..(Len(list) - 1) :
          /\ list[i].userTo <= list[i + 1].userFrom
          /\ list[i].realTo <= list[i + 1].realFrom

\* C19: in every merged span list, all range bounds are >= 0, from <= to on
\* both sides, and for consecutive spans s, t: s.baselineTo <= t.baselineFrom
\* and s.workingTo <= t.workingFrom.
MergedSpansOrdered == pcDiff = "merged" => SpansOrdered(mergedSpans)

\* a merged list of two spans that do not touch
MergedSpansOrderedWitness ==
    /\ pcDiff = "merged"
    /\ argScript = <<>>
    /\ Len(mergedSpans) = 2
    /\ mergedSpans[1].userTo < mergedSpans[2].userFrom
    /\ mergedSpans[1].realTo < mergedSpans[2].realFrom

\* ---------------------------------------------------- concrete scenarios
HelloScenarioMerged ==
    /\ pcDiff = "merged"
    /\ argBaseline = HelloWorld
    /\ argWorking = HiWorld

AbcScenarioMerged ==
    /\ pcDiff = "merged"
    /\ argScript = <<>>
    /\ argBaseline = Abc
    /\ argWorking = AbXc

\* C21: for baseline "abc" and working "abXc" the diff followed by merge
\* gives exactly one span, an Insert of "X" with working range [2,3) and the
\* empty baseline range [2,2); and computeDiff of two equal documents is the
\* empty list (it always returns a list).
AbcScenarioOneInsert ==
    /\ AbcScenarioMerged =>
          /\ Len(mergedSpans) = 1
          /\ mergedSpans[1].type = "insert"
          /\ mergedSpans[1].realText = <<"X">>
          /\ mergedSpans[1].userText = <<>>
          /\ mergedSpans[1].realFrom = 2 /\ mergedSpans[1].realTo = 3
          /\ mergedSpans[1].userFrom = 2 /\ mergedSpans[1].userTo = 2
    /\ (pcDiff \in {"diffed", "merged"} /\ argScript = <<>>) =>
          (argBaseline = argWorking => rawSpans = <<>> /\ mergedSpans = <<>>)

\* the scenario's documents have been diffed and merged into a list that
\* rebuilds the working text
AbcScenarioOneInsertWitness ==
    /\ AbcScenarioMerged
    /\ mergedSpans # <<>>
    /\ ApplySpans(argBaseline, mergedSpans) = AbXc

\* ------------------------------------------------------ gaps are preserved
\* the places i where raw span i and raw span i+1 have at least one
\* unchanged character between them
Gaps(raw) ==
    {i \in 1..(Len(raw) - 1) :
        /\ raw[i].userTo < raw[i + 1].userFrom
        /\ raw[i].realTo < raw[i + 1].realFrom}

\* the merged list has a boundary exactly at gap i of the raw list: one
\* span ends where raw span i ends and the next begins where raw span i+1
\* begins
GapKept(raw, merged, i) ==
    \E j \in 1..(Len(merged) - 1) :
        /\ merged[j].userTo = raw[i].userTo
        /\ merged[j].realTo = raw[i].realTo
        /\ merged[j + 1].userFrom = raw[i + 1].userFrom
        /\ merged[j + 1].realFrom = raw[i + 1].realFrom

HelloTestMerged ==
    /\ pcDiff = "merged"
    /\ argScript = <<>>
    /\ argBaseline = HelloWorldTest

\* C22: two raw spans separated by at least one unchanged character are
\* never merged: the merged list has one more span than the raw list has
\* gaps or more, and keeps a boundary at every gap.  In particular the edits
\* at baseline [0,5) and [6,11) of "Hello world, test" give two spans with
\* these baseline ranges, and no span of either scenario on that document
\* reaches across the unchanged blank at baseline position 5.
GapsNeverMerged ==
    /\ pcDiff = "merged" =>
          /\ Len(mergedSpans) >= Cardinality(Gaps(rawSpans)) + 1 \/ rawSpans = <<>>
          /\ \A i \in Gaps(rawSpans) : GapKept(rawSpans, mergedSpans, i)
    /\ HelloTestMerged =>
          /\ Len(mergedSpans) >= 2
          /\ \A j \in DOMAIN mergedSpans :
                mergedSpans[j].userTo <= 5 \/ mergedSpans[j].userFrom >= 6
    /\ (HelloTestMerged /\ argWorking = AbCTest) =>
          /\ Len(mergedSpans) = 2
          /\ mergedSpans[1].userFrom = 0 /\ mergedSpans[1].userTo = 5
          /\ mergedSpans[2].userFrom = 6 /\ mergedSpans[2].userTo = 11

\* the two edits of "Hello world, test" have been diffed into raw spans
\* with a gap and merged
GapsNeverMergedWitness ==
    /\ HelloTestMerged
    /\ argWorking = AbCTest
    /\ Len(rawSpans) = 4
    /\ Gaps(rawSpans) = {2}
    /\ Len(mergedSpans) = 2

\* ------------------------------------------- other spans stay consistent
\* the list holds a span with the texts of t, t's working range moved by
\* dReal and t's baseline range moved by dUser
PublishedShifted(list, t, dUser, dReal) ==
    \E k \in 1..Len(list) :
        /\ list[k].userText = t.userText
        /\ list[k].realText = t.realText
        /\ list[k].userFrom = t.userFrom + dUser
        /\ list[k].userTo = t.userTo + dUser
        /\ list[k].realFrom = t.realFrom + dReal
        /\ list[k].realTo = t.realTo + dReal

\* the index of the span with the id in the list
IndexOf(list, changeId) ==
    CHOOSE i \in 1..Len(list) :
        /\ list[i].id = changeId
        /\ \A j \in 1..(i - 1) : list[j].id # changeId

\* C23, accept: after accept(s) and recomputation every other span is
\* published with its texts and its working range, its baseline range moved
\* by len(s.workingText) - len(s.baselineText) iff it lies after s.
OthersKeptByAccept ==
    [][\A changeId \in CallerIds :
          AcceptStep(changeId) =>
              LET s == Find(diffs, changeId)
                  n == IndexOf(diffs, changeId)
              IN  \A i \in 1..Len(diffs) :
                      i # n =>
                          PublishedShifted(diffs', diffs[i],
                              IF i > n THEN Len(s.realText) - Len(s.userText) ELSE 0, 0)]_vars

\* C23, revert: after revert(s) and recomputation every other span is
\* published with its texts and its baseline range, its working range moved
\* by len(s.baselineText) - len(s.workingText) iff it lies after s.
OthersKeptByRevert ==
    [][\A changeId \in CallerIds :
          RevertStep(changeId) =>
              LET s == Find(diffs, changeId)
                  n == IndexOf(diffs, changeId)
              IN  \A i \in 1..Len(diffs) :
                      i # n =>
                          PublishedShifted(diffs', diffs[i], 0,
                              IF i > n THEN Len(s.userText) - Len(s.realText) ELSE 0)]_vars

\* C23: accept and revert both keep the other pending spans consistent.
OthersKeptConsistent == OthersKeptByAccept /\ OthersKeptByRevert

\* ------------------------------------------------------------ getDocument
NullDocument == [null |-> TRUE]

\* editor-api getDocument(includeChanges): null without a view; with the
\* changes, the editor content together with the user document and the
\* diffs; otherwise userDocument || realDocument, where the empty string
\* counts as absent
getDocument(includeChanges) ==
    IF ~view THEN NullDocument
    ELSE IF includeChanges /\ contextSet
         THEN [content |-> realDocument, userDocument |-> userDocument,
               realDocument |-> realDocument, length |-> Len(realDocument),
               diffs |-> diffs]
    ELSE LET user == IF contextSet /\ userDocument # <<>>
                     THEN userDocument ELSE realDocument
         IN  [content |-> user, length |-> Len(user)]

\* C24: with a context registered (and a view to read), getDocument(false)
\* returns the user document as content and its length, whatever the two
\* documents are; getDocument(true) returns the real document as content
\* together with userDocument and diffs.
GetDocumentReturnsBaseline ==
    BridgeAvailable =>
        /\ getDocument(FALSE).content = userDocument
        /\ getDocument(FALSE).length = Len(userDocument)
        /\ getDocument(TRUE).content = realDocument
        /\ getDocument(TRUE).userDocument = userDocument
        /\ getDocument(TRUE).diffs = diffs

\* ------------------------------------------------- suggestions (editor API)
MaxApiLen == 2

\* currentContent.slice(0, from) + text + currentContent.slice(to)
SuggestedContent(content, from, to, text) ==
    Slice(content, 0, from) \o text \o SliceFrom(content, to)

\* view?.state?.doc?.toString?.() ?? ''
ViewContent == IF view THEN realDocument ELSE <<>>

ApiCall(op, result, dispatched) ==
    [op |-> op, result |-> result, dispatched |-> dispatched]

\* the suggested mode of replaceText and suggestChange:
\* globalSuggestedChangesContext.setRealDocument(newContent); the store
\* takes the working text and recomputes
SetRealDocument(newContent) ==
    /\ realDocument' = newContent
    /\ diffs' = Recompute(userDocument, newContent, isAiDiffMode)

\* editor-api suggestChange(from, to, text)
SuggestChange(from, to, text) ==
    LET newContent == SuggestedContent(ViewContent, from, to, text)
    IN  /\ Len(newContent) <= MaxApiLen
        /\ IF ~contextSet
           THEN /\ apiCall' = ApiCall("suggestChange", "null", FALSE)
                /\ UNCHANGED <<realDocument, diffs>>
           ELSE /\ SetRealDocument(newContent)
                /\ apiCall' = ApiCall("suggestChange", "suggested_change_applied", FALSE)
        /\ last' = LastOf("suggest", "none", NoSpan)
        /\ run' = NoRun
        /\ UNCHANGED <<userDocument, isAiDiffMode, contextSet, view>>
        /\ UNCHANGED diffVars
        /\ UNCHANGED docVars
        /\ UNCHANGED bridgeVars
        /\ UNCHANGED iframeVars
        /\ UNCHANGED otherVars

\* Math.max(0, Math.min(from, docLength)) and
\* Math.max(clampedFrom, Math.min(to, docLength))
ClampedFrom(doc, from) == Max(0, Min(from, Len(doc)))

ClampedTo(doc, from, to) == Max(ClampedFrom(doc, from), Min(to, Len(doc)))

\* editor-api replaceText(from, to, text, suggestedOnly): the suggested mode
\* when suggestedOnly is set and a context is registered; otherwise the
\* direct modification mode, false without a view, else the change is
\* dispatched to the editor view (and the store takes the new working text)
ReplaceText(from, to, text, suggestedOnly) ==
    LET newContent == SuggestedContent(ViewContent, from, to, text)
        direct == Dispatch(realDocument, ClampedFrom(realDocument, from),
                           ClampedTo(realDocument, from, to), text)
    IN  /\ IF suggestedOnly /\ contextSet
           THEN /\ Len(newContent) <= MaxApiLen
                /\ SetRealDocument(newContent)
                /\ apiCall' = ApiCall("replaceText", "suggested_change_applied", FALSE)
           ELSE IF ~view
           THEN /\ apiCall' = ApiCall("replaceText", "false", FALSE)
                /\ UNCHANGED <<realDocument, diffs>>
           ELSE /\ Len(direct) <= MaxApiLen
                /\ realDocument' = direct
                /\ diffs' = Recompute(userDocument, direct, isAiDiffMode)
                /\ apiCall' = ApiCall("replaceText", "true", TRUE)
        /\ last' = LastOf(IF suggestedOnly THEN "suggest" ELSE "replace", "none", NoSpan)
        /\ run' = NoRun
        /\ UNCHANGED <<userDocument, isAiDiffMode, contextSet, view>>
        /\ UNCHANGED diffVars
        /\ UNCHANGED docVars
        /\ UNCHANGED bridgeVars
        /\ UNCHANGED iframeVars
        /\ UNCHANGED otherVars

ApiLoaded ==
    /\ StoreLoaded
    /\ Len(userDocument) <= MaxApiLen

ApiPositions == 0..MaxApiLen

ApiTexts == {s \in Str : Len(s) <= 1}

InitApi == ApiLoaded /\ DiffIdle /\ DocsIdle /\ BridgeIdle /\ ApiIdle /\ IframeIdle /\ OtherIdle

NextApi ==
    \/ OpenAiDiff
    \/ CloseAiDiff
    \/ \E from \in ApiPositions, to \in ApiPositions, text \in ApiTexts :
          SuggestChange(from, to, text)
    \/ \E from \in ApiPositions, to \in ApiPositions, text \in ApiTexts,
          suggestedOnly \in BOOLEAN :
          ReplaceText(from, to, text, suggestedOnly)
    \/ \E changeId \in CallerIds : AcceptChange(changeId)
    \/ \E changeId \in CallerIds : RejectChange(changeId)
    \/ UnmountIntegration
    \/ MountIntegration
    \/ \E present \in BOOLEAN : SetView(present)

SpecApi == InitApi /\ [][NextApi]_vars

\* a suggestion made through the editor API in this step
SuggestionStep ==
    \E from \in ApiPositions, to \in ApiPositions, text \in ApiTexts :
        \/ SuggestChange(from, to, text)
        \/ ReplaceText(from, to, text, TRUE)

\* C25: a suggestion never modifies the document directly: suggestChange
\* and replaceText with suggestedOnly dispatch no change to the editor view
\* and leave the user document unchanged, in every state.
SuggestionNeverDirect ==
    [][SuggestionStep =>
          /\ apiCall'.dispatched = FALSE
          /\ userDocument' = userDocument]_vars

\* C26: when the Editor Bridge is unavailable (no context registered, or no
\* editor view), accept, revert and suggestChange report failure (false /
\* null) to the caller and leave baseline and working text unchanged.
UnavailableBridgeFails ==
    [][~BridgeAvailable =>
          /\ (\E changeId \in CallerIds : AcceptChange(changeId)) =>
                /\ last'.ok = "false"
                /\ userDocument' = userDocument /\ realDocument' = realDocument
          /\ (\E changeId \in CallerIds : RejectChange(changeId)) =>
                /\ last'.ok = "false"
                /\ userDocument' = userDocument /\ realDocument' = realDocument
          /\ (\E from \in ApiPositions, to \in ApiPositions, text \in ApiTexts :
                SuggestChange(from, to, text)) =>
                /\ apiCall'.result = "null"
                /\ userDocument' = userDocument /\ realDocument' = realDocument]_vars

\* --------------------------------------------------------------- iframe API
MaxMessages == 2

\* ALLOWED_ORIGINS
ALLOWED_ORIGINS ==
    {"http://localhost:5173", "https://localhost:5173",
     "http://127.0.0.1:5173", "https://127.0.0.1:5173",
     "http://localhost:3000", "https://localhost:3000",
     "http://127.0.0.1:3000", "https://127.0.0.1:3000"}

isAllowedOrigin(origin) == origin \in ALLOWED_ORIGINS

\* the origins the usage guide lists as supported
DocumentedOrigins ==
    {"http://localhost:5173", "https://localhost:5173",
     "http://127.0.0.1:5173", "https://127.0.0.1:5173"}

\* origins a message event may carry: the allowed ones and others
Origins ==
    ALLOWED_ORIGINS \cup {"https://example.com", "http://localhost:5174", "null"}

\* message events: the origin, the type of the data, the api and the method
\* named, the call id, and what the method does when it is called with the
\* params of the message
Messages(callId) ==
    [origin : Origins, type : {"apiCall", "other"}, api : {"editor", "other"},
     method : {"getDocument", "missing"}, callId : {callId},
     outcome : {"returns"}]

handleApiCallInvokesAnyApi(e) ==
    /\ overleafEditorApi
    /\ e.method = "getDocument"

\* handleApiCall calls the method: overleafEditorApi is there, the api is
\* editor or project and the method is a function
handleApiCallInvokes(e) ==
    /\ overleafEditorApi
    /\ e.api \in {"editor", "project"}
    /\ e.method = "getDocument"

\* what handleApiCall resolves to: the success response if the method was
\* called and returned, else the failure response of the catch block;
\* cloneable is whether postMessage can clone the result
handleApiCall(e) ==
    [origin |-> e.origin, callId |-> e.callId,
     success |-> handleApiCallInvokes(e) /\ e.outcome # "throws",
     cloneable |-> ~(handleApiCallInvokes(e) /\ e.outcome = "unclonable")]

\* the response posted: the one handleApiCall resolved to, or the error
\* response of `.catch` when posting that one throws
ApiResponse(r) ==
    [origin |-> r.origin, callId |-> r.callId, success |-> r.success /\ r.cloneable]

removeEventListenerKept(listeners) == listeners

\* window.removeEventListener('message', handleMessage)
removeEventListener(listeners) == 0

\* window.addEventListener('message', handleMessage): a listener that is
\* registered already is not registered again
addEventListener(listeners) == IF listeners > 0 THEN listeners ELSE 1

initializeIframeApi ==
    /\ IF iframeApiInitialized \/ ~overleafEditorApi
       THEN UNCHANGED <<iframeApiInitialized, messageListeners>>
       ELSE /\ messageListeners' = addEventListener(messageListeners)
            /\ iframeApiInitialized' = TRUE
    /\ UNCHANGED <<overleafEditorApi, posted, inbox, invoked, pending, responses>>
    /\ UNCHANGED <<diffVars, storeVars, docVars, bridgeVars, apiVars, otherVars>>

cleanupIframeApi ==
    /\ IF iframeApiInitialized
       THEN /\ messageListeners' = removeEventListener(messageListeners)
            /\ iframeApiInitialized' = FALSE
       ELSE UNCHANGED <<iframeApiInitialized, messageListeners>>
    /\ UNCHANGED <<overleafEditorApi, posted, inbox, invoked, pending, responses>>
    /\ UNCHANGED <<diffVars, storeVars, docVars, bridgeVars, apiVars, otherVars>>

\* a window posts a message to the editor window: the message event is
\* dispatched later
PostMessage(e) ==
    /\ posted < MaxMessages
    /\ posted' = posted + 1
    /\ inbox' = inbox \cup {e}
    /\ UNCHANGED <<iframeApiInitialized, messageListeners, overleafEditorApi>>
    /\ UNCHANGED <<invoked, pending, responses>>
    /\ UNCHANGED <<diffVars, storeVars, docVars, bridgeVars, apiVars, otherVars>>

\* the message event is dispatched while handleMessage is not registered
DropMessage(e) ==
    /\ e \in inbox
    /\ messageListeners = 0
    /\ inbox' = inbox \ {e}
    /\ UNCHANGED <<iframeApiInitialized, messageListeners, overleafEditorApi>>
    /\ UNCHANGED <<posted, invoked, pending, responses>>
    /\ UNCHANGED <<diffVars, storeVars, docVars, bridgeVars, apiVars, otherVars>>

\* handleMessage(event)
handleMessage(e) ==
    /\ e \in inbox
    /\ messageListeners > 0
    /\ inbox' = inbox \ {e}
    /\ IF ~isAllowedOrigin(e.origin) \/ e.type # "apiCall"
       THEN UNCHANGED <<invoked, pending>>
       ELSE /\ invoked' = IF handleApiCallInvokes(e)
                          THEN invoked \cup {[origin |-> e.origin, method |-> e.method,
                                              callId |-> e.callId]}
                          ELSE invoked
            /\ pending' = pending \cup {handleApiCall(e)}
    /\ UNCHANGED <<iframeApiInitialized, messageListeners, overleafEditorApi>>
    /\ UNCHANGED <<posted, responses>>
    /\ UNCHANGED <<diffVars, storeVars, docVars, bridgeVars, apiVars, otherVars>>

\* the promise of handleApiCall resolves: event.source?.postMessage(response,
\* {targetOrigin: event.origin}), and the error response if that throws
SendResponse(r) ==
    /\ r \in pending
    /\ pending' = pending \ {r}
    /\ responses' = responses \cup {ApiResponse(r)}
    /\ UNCHANGED <<iframeApiInitialized, messageListeners, overleafEditorApi>>
    /\ UNCHANGED <<posted, inbox, invoked>>
    /\ UNCHANGED <<diffVars, storeVars, docVars, bridgeVars, apiVars, otherVars>>

InitIframe ==
    StoreIdle /\ DiffIdle /\ DocsIdle /\ BridgeIdle /\ ApiIdle /\ IframeIdle /\ OtherIdle

NextIframe ==
    \/ initializeIframeApi
    \/ cleanupIframeApi
    \/ \E e \in Messages(posted + 1) : PostMessage(e)
    \/ \E e \in inbox : DropMessage(e)
    \/ \E e \in inbox : handleMessage(e)
    \/ \E r \in pending : SendResponse(r)

SpecIframe == InitIframe /\ [][NextIframe]_vars

\* C27: only messages from the documented origins (http and https of
\* localhost:5173 and 127.0.0.1:5173) invoke an overleafEditorApi method or
\* are sent a response.
OnlyDocumentedOrigins ==
    /\ \A c \in invoked : c.origin \in DocumentedOrigins
    /\ \A r \in pending \cup responses : r.origin \in DocumentedOrigins

\* ------------------------------------------------ spans match the documents
\* the span carries the substrings of its two ranges, and its kind is the one
\* of its ranges
SpanFaithful(s, baseline, working) ==
    /\ s.userText = Slice(baseline, s.userFrom, s.userTo)
    /\ s.realText = Slice(working, s.realFrom, s.realTo)
    /\ s.type = "insert" <=> s.userFrom = s.userTo
    /\ s.type = "delete" <=> s.realFrom = s.realTo
    /\ s.type = "replace" <=> (s.userFrom < s.userTo /\ s.realFrom < s.realTo)

\* the kinds of the raw spans one merged span was made of are not recorded;
\* the kind pairs met by the merge of a raw list that merges to one span
RECURSIVE PairsMet(_, _)
PairsMet(current, rest) ==
    IF rest = <<>> THEN {}
    ELSE {<<current.type, Head(rest).type>>}
         \cup PairsMet(MergePair(current, Head(rest)), Tail(rest))

\* C28: every span of a merged list carries exactly the substrings of its
\* baseline range and of its working range in the two documents, and is an
\* Insert iff its baseline range is empty, a Delete iff its working range is
\* empty and a Replace iff both are non-empty, whatever the merge outcomes.
MergedSpansFaithful ==
    pcDiff = "merged" =>
        \A i \in 1..Len(mergedSpans) :
            SpanFaithful(mergedSpans[i], argBaseline, argWorking)

\* a raw list merged into one span through Replace + Replace and then
\* Replace + Insert
MergedSpansFaithfulWitness ==
    /\ pcDiff = "merged"
    /\ Len(rawSpans) = 3
    /\ Len(mergedSpans) = 1
    /\ PairsMet(rawSpans[1], Tail(rawSpans)) =
          {<<"replace", "replace">>, <<"replace", "insert">>}
    /\ mergedSpans[1].type = "replace"
    /\ mergedSpans[1].userTo - mergedSpans[1].userFrom = 2
    /\ mergedSpans[1].realTo - mergedSpans[1].realFrom = 3

\* ------------------------------------------------------ merge is idempotent
\* C29: the merged list has no two consecutive spans that are adjacent or
\* co-located, and merging it again returns the same spans, ids included;
\* the empty list is returned empty and a single span is returned as it is,
\* with its id assigned.
MergeIdempotent ==
    pcDiff = "merged" =>
        /\ merge(mergedSpans) = mergedSpans
        /\ \A i \in 1..(Len(mergedSpans) - 1) :
              ~CanMerge(mergedSpans[i], mergedSpans[i + 1])
        /\ rawSpans = <<>> => mergedSpans = <<>>
        /\ Len(rawSpans) = 1 =>
              /\ Len(mergedSpans) = 1
              /\ [mergedSpans[1] EXCEPT !.id = NoId] = rawSpans[1]
              /\ mergedSpans[1].id = SpanId(rawSpans[1])

\* three raw spans, the first two merged into one and the third kept apart
\* by unchanged text
MergeIdempotentWitness ==
    /\ pcDiff = "merged"
    /\ Len(rawSpans) = 3
    /\ Len(mergedSpans) = 2
    /\ CanMerge(rawSpans[1], rawSpans[2])
    /\ merge(mergedSpans) = mergedSpans

\* ------------------------------------------------- frame of accept / revert
\* C30: a successful accept leaves the working text unchanged; a successful
\* revert leaves the baseline unchanged and replaces exactly the working
\* range [realFrom, realTo) of its span by the span's baseline-side text, the
\* text before and after that range being preserved.
AcceptRevertFrame ==
    /\ [][\A changeId \in CallerIds :
             (AcceptStep(changeId) /\ last'.ok = "true") =>
                 realDocument' = realDocument]_vars
    /\ [][\A changeId \in CallerIds :
             (RevertStep(changeId) /\ last'.ok = "true") =>
                 LET s == Find(diffs, changeId)
                     end == s.realFrom + Len(s.userText)
                 IN  /\ userDocument' = userDocument
                     /\ Slice(realDocument', 0, s.realFrom) = Slice(realDocument, 0, s.realFrom)
                     /\ Slice(realDocument', s.realFrom, end) = s.userText
                     /\ SliceFrom(realDocument', end) = SliceFrom(realDocument, s.realTo)
                     /\ Len(realDocument') =
                           Len(realDocument) - (s.realTo - s.realFrom) + Len(s.userText)]_vars

\* the second of two published spans, whose two ranges start at different
\* positions, was reverted: the first one is still published
AcceptRevertFrameWitness ==
    /\ last.op = "revert"
    /\ last.ok = "true"
    /\ run.kind = "revert"
    /\ run.n = 1
    /\ userDocument = run.user
    /\ Len(ListBeforeRun) = 2
    /\ ListBeforeRun[2].userFrom # ListBeforeRun[2].realFrom
    /\ realDocument = Dispatch(run.real, ListBeforeRun[2].realFrom,
                               ListBeforeRun[2].realTo, ListBeforeRun[2].userText)
    /\ diffs = <<ListBeforeRun[1]>>

\* ------------------------------------------------ editor API, event form
MaxCalls == 3

\* the methods of editorApi that answer within the request's dispatch
EventMethods ==
    {"getSelection", "setSelection", "replaceText", "suggestChange",
     "acceptChange", "rejectChange", "getDocument", "recompile"}

\* generateRequestId: the id of a new call, taken to differ from every
\* earlier one
generateRequestId == Len(calls) + 1

NewCall(method) ==
    [method |-> method, handled |-> apiEventListener, responses |-> 0,
     resolvedWith |-> {}, listening |-> TRUE]

ResponseMatchesAny(requestId, detail) == TRUE

\* handleResponse: `if (detail.requestId === requestId)`
ResponseMatches(requestId, detail) == detail.requestId = requestId

\* window.dispatchEvent of a response event: every handleResponse registered
\* for the event type runs; the one the response matches removes itself and
\* resolves its promise
DispatchResponse(cs, detail) ==
    [i \in 1..Len(cs) |->
        LET counted == IF i = detail.requestId
                       THEN [cs[i] EXCEPT !.responses = @ + 1] ELSE cs[i]
        IN  IF cs[i].listening /\ cs[i].method = detail.method
               /\ ResponseMatches(i, detail)
            THEN [counted EXCEPT !.listening = FALSE,
                                 !.resolvedWith = @ \cup {detail}]
            ELSE counted]

\* handleApiEvent: one case per event type, each dispatching one response
\* with the requestId of the request
handleApiEvent(cs, method, requestId, success) ==
    DispatchResponse(cs, [method |-> method, requestId |-> requestId,
                          success |-> success])

initializeEditorApi ==
    /\ apiEventListener' = TRUE
    /\ UNCHANGED calls
    /\ UNCHANGED <<diffVars, storeVars, docVars, bridgeVars, apiVars, iframeVars, eventRest>>

cleanupEditorApi ==
    /\ apiEventListener' = FALSE
    /\ UNCHANGED calls
    /\ UNCHANGED <<diffVars, storeVars, docVars, bridgeVars, apiVars, iframeVars, eventRest>>

\* editorApi.<method>(...): register handleResponse, dispatch the request
\* event; with handleApiEvent registered the response is dispatched before
\* dispatchEvent returns. success is what the called function reports.
EditorApiCall(method, success) ==
    /\ Len(calls) < MaxCalls
    /\ LET requestId == generateRequestId
           registered == Append(calls, NewCall(method))
       IN  calls' = IF apiEventListener
                    THEN handleApiEvent(registered, method, requestId, success)
                    ELSE registered
    /\ UNCHANGED apiEventListener
    /\ UNCHANGED <<diffVars, storeVars, docVars, bridgeVars, apiVars, iframeVars, eventRest>>

InitEvents ==
    StoreIdle /\ DiffIdle /\ DocsIdle /\ BridgeIdle /\ ApiIdle /\ IframeIdle /\ OtherIdle

NextEvents ==
    \/ initializeEditorApi
    \/ cleanupEditorApi
    \/ \E method \in EventMethods, success \in BOOLEAN : EditorApiCall(method, success)

SpecEvents == InitEvents /\ [][NextEvents]_vars

\* C31: every editorApi call made while handleApiEvent is registered causes
\* exactly one response event with its requestId and its promise resolves
\* with that response and no other, also while earlier calls of the same
\* method still listen; its response listener is removed by then. No call
\* ever resolves with the response of another requestId.
EventResponsesMatched ==
    \A i \in 1..Len(calls) :
        /\ calls[i].responses <= 1
        /\ \A d \in calls[i].resolvedWith : d.requestId = i /\ d.method = calls[i].method
        /\ calls[i].handled =>
              /\ calls[i].responses = 1
              /\ Cardinality(calls[i].resolvedWith) = 1
              /\ ~calls[i].listening

\* a call made before initializeEditorApi still listens while two later calls
\* of the same method were answered
EventResponsesMatchedWitness ==
    /\ Len(calls) = 3
    /\ ~calls[1].handled /\ calls[1].listening
    /\ calls[2].handled /\ calls[3].handled
    /\ calls[1].method = calls[2].method /\ calls[2].method = calls[3].method
    /\ calls[2].resolvedWith # calls[3].resolvedWith

\* ----------------------------------------------- iframe API: calls answered
\* the message events of the call handling: from one allowed origin every
\* api, method and outcome of the call, one event that is no apiCall and one
\* from another origin
CallMessages(callId) ==
    [origin : {"http://localhost:5173"}, type : {"apiCall"},
     api : {"editor", "project", "other"}, method : {"getDocument", "missing"},
     callId : {callId}, outcome : {"returns", "throws", "unclonable"}]
    \cup [origin : {"http://localhost:5173"}, type : {"other"}, api : {"editor"},
          method : {"getDocument"}, callId : {callId}, outcome : {"returns"}]
    \cup [origin : {"https://example.com"}, type : {"apiCall"}, api : {"editor"},
          method : {"getDocument"}, callId : {callId}, outcome : {"returns"}]

\* window.overleafEditorApi = editorApi, when the editor API module loads
ExposeEditorApi ==
    /\ ~overleafEditorApi
    /\ overleafEditorApi' = TRUE
    /\ UNCHANGED <<iframeApiInitialized, messageListeners>>
    /\ UNCHANGED <<posted, inbox, invoked, pending, responses>>
    /\ UNCHANGED <<diffVars, storeVars, docVars, bridgeVars, apiVars, otherVars>>

\* window.overleafEditorApi is taken away, the case handleApiCall and
\* initializeIframeApi test for
LoseEditorApi ==
    /\ overleafEditorApi
    /\ overleafEditorApi' = FALSE
    /\ UNCHANGED <<iframeApiInitialized, messageListeners>>
    /\ UNCHANGED <<posted, inbox, invoked, pending, responses>>
    /\ UNCHANGED <<diffVars, storeVars, docVars, bridgeVars, apiVars, otherVars>>

NextIframeCalls ==
    \/ initializeIframeApi
    \/ cleanupIframeApi
    \/ ExposeEditorApi
    \/ LoseEditorApi
    \/ \E e \in CallMessages(posted + 1) : PostMessage(e)
    \/ \E e \in inbox : DropMessage(e)
    \/ \E e \in inbox : handleMessage(e)
    \/ \E r \in pending : SendResponse(r)

SpecIframeCalls == InitIframe /\ [][NextIframeCalls]_vars

ResponsesOf(callId) ==
    Cardinality({r \in pending : r.callId = callId})
    + Cardinality({r \in responses : r.callId = callId})

\* C32: handling an apiCall message of an allowed origin yields one result
\* with the callId of the message, and one apiResponse with that callId is
\* posted to the origin of the message: success true if the method was
\* called and returned, success false if overleafEditorApi is missing, the
\* api is neither editor nor project, the method is no function, the method
\* throws or the result cannot be posted. No call is ever answered twice.
OneResponsePerCall ==
    /\ [](\A callId \in 1..posted : ResponsesOf(callId) <= 1)
    /\ [][\A e \in inbox :
             (handleMessage(e) /\ isAllowedOrigin(e.origin) /\ e.type = "apiCall") =>
                 \E r \in pending' :
                     /\ r \notin pending
                     /\ pending' = pending \cup {r}
                     /\ r.callId = e.callId /\ r.origin = e.origin
                     /\ r.success <=>
                           /\ overleafEditorApi
                           /\ e.api \in {"editor", "project"}
                           /\ e.method # "missing"
                           /\ e.outcome # "throws"]_vars
    /\ [][\A r \in pending :
             SendResponse(r) =>
                 \E q \in responses' :
                     /\ q \notin responses
                     /\ responses' = responses \cup {q}
                     /\ q.callId = r.callId /\ q.origin = r.origin
                     /\ q.success <=> (r.success /\ r.cloneable)]_vars

\* both calls reached the method; the first was answered with success, the
\* second with a failure
OneResponsePerCallWitness ==
    /\ posted = 2
    /\ {c.callId : c \in invoked} = {1, 2}
    /\ {[callId |-> r.callId, success |-> r.success] : r \in responses} =
          {[callId |-> 1, success |-> TRUE], [callId |-> 2, success |-> FALSE]}

\* C34: window.iframeApiInitialized is set exactly when handleMessage is
\* registered, and it is registered at most once; handleMessage is registered
\* only while overleafEditorApi is there, and a message is handled only
\* between initializeIframeApi and cleanupIframeApi.
ListenerFollowsFlag ==
    /\ [](messageListeners = IF iframeApiInitialized THEN 1 ELSE 0)
    /\ [][messageListeners' > messageListeners => overleafEditorApi]_vars
    /\ [][(\E e \in inbox : handleMessage(e)) => iframeApiInitialized]_vars
    /\ [][(invoked' # invoked \/ ~(pending' \subseteq pending)) =>
             iframeApiInitialized]_vars

\* after initializeIframeApi, cleanupIframeApi and an initializeIframeApi
\* without overleafEditorApi: a message posted meanwhile stays unhandled, an
\* earlier one was answered
ListenerFollowsFlagWitness ==
    /\ ~iframeApiInitialized
    /\ messageListeners = 0
    /\ ~overleafEditorApi
    /\ posted = 2
    /\ inbox = {}
    /\ \E r \in responses : r.callId = 1
    /\ ResponsesOf(2) = 0

\* ----------------------------------------- iframe API: listenForResponse
MaxListens == 3

\* the data of the message events the calling window receives
ClientMessages ==
    [type : {"apiResponse", "other"}, callId : 1..MaxListens, success : BOOLEAN]

\* handleResponse: `response.type === 'apiResponse' && response.callId === callId`
handleResponseMatches(callId, response) ==
    response.type = "apiResponse" /\ response.callId = callId

Called(l, kind) ==
    [l EXCEPT !.callbacks = Append(@, [kind |-> kind, afterCleanup |-> l.cleaned])]

\* listenForResponse(callId, callback, timeout): handleResponse registered,
\* the timeout set
listenForResponse ==
    /\ Len(listens) < MaxListens
    /\ listens' = Append(listens, [listening |-> TRUE, timer |-> "set",
                                   callbacks |-> <<>>, cleaned |-> FALSE])
    /\ UNCHANGED <<diffVars, storeVars, docVars, bridgeVars, apiVars, iframeVars, clientRest>>

\* a message event in the calling window: every registered handleResponse
\* runs; the one it matches calls the callback and removes itself
handleResponse(response) ==
    /\ \E i \in 1..Len(listens) :
          listens[i].listening /\ handleResponseMatches(i, response)
    /\ listens' = [i \in 1..Len(listens) |->
                      IF listens[i].listening /\ handleResponseMatches(i, response)
                      THEN [Called(listens[i], "response") EXCEPT !.listening = FALSE]
                      ELSE listens[i]]
    /\ UNCHANGED <<diffVars, storeVars, docVars, bridgeVars, apiVars, iframeVars, clientRest>>

\* the function of setTimeout runs: handleResponse removed, the callback
\* called with the 'Request timeout' failure
RequestTimeout(i) ==
    /\ i \in 1..Len(listens)
    /\ listens[i].timer = "set"
    /\ listens' = [listens EXCEPT ![i] =
                      [Called(listens[i], "timeout") EXCEPT !.listening = FALSE,
                                                            !.timer = "fired"]]
    /\ UNCHANGED <<diffVars, storeVars, docVars, bridgeVars, apiVars, iframeVars, clientRest>>

\* the cleanup function listenForResponse returned: clearTimeout and
\* removeEventListener
ListenCleanup(i) ==
    /\ i \in 1..Len(listens)
    /\ ~listens[i].cleaned
    /\ listens' = [listens EXCEPT ![i] =
                      [@ EXCEPT !.listening = FALSE, !.cleaned = TRUE,
                                !.timer = IF @ = "set" THEN "cleared" ELSE @]]
    /\ UNCHANGED <<diffVars, storeVars, docVars, bridgeVars, apiVars, iframeVars, clientRest>>

InitListen ==
    StoreIdle /\ DiffIdle /\ DocsIdle /\ BridgeIdle /\ ApiIdle /\ IframeIdle /\ OtherIdle

NextListen ==
    \/ listenForResponse
    \/ \E response \in ClientMessages : handleResponse(response)
    \/ \E i \in 1..MaxListens : RequestTimeout(i)
    \/ \E i \in 1..MaxListens : ListenCleanup(i)

SpecListen == InitListen /\ [][NextListen]_vars

\* C33: the callback of a listenForResponse call is invoked at most once,
\* with the matching response or with the timeout failure, and never after
\* the cleanup function was called.
CallbackOnce ==
    \A i \in 1..Len(listens) :
        /\ Len(listens[i].callbacks) <= 1
        /\ \A k \in 1..Len(listens[i].callbacks) : ~listens[i].callbacks[k].afterCleanup

\* ------------------------------------------------------------- patch list
MaxChanges == 3

\* the texts suggested: a deletion and a text longer than any range replaced
SuggestedTexts == {<<>>, <<"X", "Y", "X", "Y">>}

\* [...changes].sort((a, b) => a.from - b.from): the sort is stable
RECURSIVE InsertByFrom(_, _)
InsertByFrom(sorted, c) ==
    IF sorted = <<>> THEN <<c>>
    ELSE IF sorted[Len(sorted)].from <= c.from THEN Append(sorted, c)
    ELSE Append(InsertByFrom(SubSeq(sorted, 1, Len(sorted) - 1), c), sorted[Len(sorted)])

RECURSIVE SortByFrom(_)
SortByFrom(changes) ==
    IF changes = <<>> THEN <<>>
    ELSE InsertByFrom(SortByFrom(SubSeq(changes, 1, Len(changes) - 1)), changes[Len(changes)])

\* pendingChanges.sort((a, b) => b.from - a.from)
RECURSIVE InsertByFromDesc(_, _)
InsertByFromDesc(sorted, c) ==
    IF sorted = <<>> THEN <<c>>
    ELSE IF sorted[Len(sorted)].from >= c.from THEN Append(sorted, c)
    ELSE Append(InsertByFromDesc(SubSeq(sorted, 1, Len(sorted) - 1), c), sorted[Len(sorted)])

RECURSIVE SortByFromDesc(_)
SortByFromDesc(changes) ==
    IF changes = <<>> THEN <<>>
    ELSE InsertByFromDesc(SortByFromDesc(SubSeq(changes, 1, Len(changes) - 1)),
                          changes[Len(changes)])

\* the suggested text of a merged change
mergedSuggestedText(original, lastChange, current) ==
    LET mergedFrom == Min(lastChange.from, current.from)
        mergedTo == Max(lastChange.to, current.to)
    IN  IF lastChange.from = current.from /\ lastChange.to = current.to THEN current.suggestedText
        ELSE IF current.from >= lastChange.from /\ current.to <= lastChange.to THEN lastChange.suggestedText
        ELSE IF lastChange.from >= current.from /\ lastChange.to <= current.to THEN current.suggestedText
        ELSE Slice(original, mergedFrom, Min(lastChange.from, current.from))
             \o current.suggestedText
             \o Slice(original, Max(lastChange.to, current.to), mergedTo)

\* mergedChange; its id, `merged_${last.id}_${current.id}`, is the ids of the
\* two joined
mergedChange(original, lastChange, current) ==
    [id |-> lastChange.id \o current.id,
     from |-> Min(lastChange.from, current.from),
     to |-> Max(lastChange.to, current.to),
     originalText |-> Slice(original, Min(lastChange.from, current.from), Max(lastChange.to, current.to)),
     suggestedText |-> mergedSuggestedText(original, lastChange, current)]

\* the test without the ranges that only touch
OverlapsLastStrict(lastChange, current) == current.from < lastChange.to

\* `if (current.from <= lastChange.to)`
OverlapsLast(lastChange, current) == current.from <= lastChange.to

RECURSIVE MergeSorted(_, _, _)
MergeSorted(original, sorted, merged) ==
    IF sorted = <<>> THEN merged
    ELSE LET current == Head(sorted)
         IN  IF merged = <<>> THEN MergeSorted(original, Tail(sorted), <<current>>)
             ELSE LET lastChange == merged[Len(merged)]
                  IN  IF OverlapsLast(lastChange, current)
                      THEN MergeSorted(original, Tail(sorted),
                               [merged EXCEPT ![Len(merged)] =
                                   mergedChange(original, lastChange, current)])
                      ELSE MergeSorted(original, Tail(sorted), Append(merged, current))

mergeOverlappingChanges(original, changes) ==
    IF Len(changes) <= 1 THEN changes
    ELSE MergeSorted(original, SortByFrom(changes), <<>>)

\* every change of the list is pending: accepted and rejected ones are removed
mergedSuggestedChanges == mergeOverlappingChanges(originalDocument, suggestedChanges)

RECURSIVE ApplyChanges(_, _)
ApplyChanges(result, changes) ==
    IF changes = <<>> THEN result
    ELSE LET change == Head(changes)
         IN  ApplyChanges(Slice(result, 0, change.from) \o change.suggestedText
                          \o SliceFrom(result, change.to),
                          Tail(changes))

modifiedDocument == ApplyChanges(originalDocument, SortByFromDesc(suggestedChanges))

FindChange(changes, changeId) ==
    IF \E i \in 1..Len(changes) : changes[i].id = changeId
    THEN changes[CHOOSE i \in 1..Len(changes) : changes[i].id = changeId]
    ELSE [id |-> <<>>, from |-> 0, to |-> 0, originalText |-> <<>>, suggestedText |-> <<>>]

Without(changes, ids) == SelectSeq(changes, LAMBDA c : c.id \notin ids)

\* acceptChange: `if (c.from > change.to)`
ShiftedPast(c, change) == c.from > change.to

\* acceptChange(changeId)
acceptChange(prev, changeId) ==
    LET change == FindChange(prev, changeId)
        lengthDiff == Len(change.suggestedText) - (change.to - change.from)
        rest == Without(prev, {changeId})
    IN  IF change.id = <<>> THEN prev
        ELSE [i \in 1..Len(rest) |->
                 IF ShiftedPast(rest[i], change)
                 THEN [rest[i] EXCEPT !.from = @ + lengthDiff, !.to = @ + lengthDiff]
                 ELSE rest[i]]

\* the ids a caller can name: those of the changes and those of the merged
\* entries shown
PatchIds ==
    {suggestedChanges[i].id : i \in 1..Len(suggestedChanges)}
    \cup {mergedSuggestedChanges[i].id : i \in 1..Len(mergedSuggestedChanges)}

AddSuggestedChange(from, to, text) ==
    /\ changeCount < MaxChanges
    /\ from <= to /\ to <= Len(originalDocument)
    /\ changeCount' = changeCount + 1
    /\ suggestedChanges' =
          Append(suggestedChanges,
                 [id |-> <<changeCount + 1>>, from |-> from, to |-> to,
                  originalText |-> Slice(originalDocument, from, to),
                  suggestedText |-> text])
    /\ lastPatch' = NoPatch
    /\ UNCHANGED originalDocument
    /\ UNCHANGED <<diffVars, storeVars, docVars, bridgeVars, apiVars, iframeVars, patchRest>>

\* the user accepts an entry shown, or a caller accepts a change
AcceptPatch(changeId) ==
    /\ changeId \in PatchIds
    /\ suggestedChanges' = acceptChange(suggestedChanges, changeId)
    /\ lastPatch' = [op |-> "accept", id |-> changeId]
    /\ UNCHANGED <<originalDocument, changeCount>>
    /\ UNCHANGED <<diffVars, storeVars, docVars, bridgeVars, apiVars, iframeVars, patchRest>>

\* acceptChange of a change whose text is written into the document, the
\* new content becoming the original document
AcceptPatchFolded(changeId) ==
    LET change == FindChange(suggestedChanges, changeId)
    IN  /\ change.id # <<>>
        /\ suggestedChanges' = acceptChange(suggestedChanges, changeId)
        /\ originalDocument' = Slice(originalDocument, 0, change.from)
                               \o change.suggestedText
                               \o SliceFrom(originalDocument, change.to)
        /\ lastPatch' = NoPatch
        /\ UNCHANGED changeCount
        /\ UNCHANGED <<diffVars, storeVars, docVars, bridgeVars, apiVars, iframeVars, patchRest>>

\* rejectChange(changeId)
RejectPatch(changeId) ==
    /\ changeId \in PatchIds
    /\ suggestedChanges' = Without(suggestedChanges, {changeId})
    /\ lastPatch' = NoPatch
    /\ UNCHANGED <<originalDocument, changeCount>>
    /\ UNCHANGED <<diffVars, storeVars, docVars, bridgeVars, apiVars, iframeVars, patchRest>>

\* batchRemoveChanges(changeIds)
BatchRemoveChanges(changeIds) ==
    /\ changeIds # {}
    /\ suggestedChanges' = Without(suggestedChanges, changeIds)
    /\ lastPatch' = NoPatch
    /\ UNCHANGED <<originalDocument, changeCount>>
    /\ UNCHANGED <<diffVars, storeVars, docVars, bridgeVars, apiVars, iframeVars, patchRest>>

\* clearAllChanges()
ClearAllChanges ==
    /\ suggestedChanges # <<>>
    /\ suggestedChanges' = <<>>
    /\ lastPatch' = NoPatch
    /\ UNCHANGED <<originalDocument, changeCount>>
    /\ UNCHANGED <<diffVars, storeVars, docVars, bridgeVars, apiVars, iframeVars, patchRest>>

PatchPositions == 0..Len(PatchDocument)

InitPatch ==
    StoreIdle /\ DiffIdle /\ DocsIdle /\ BridgeIdle /\ ApiIdle /\ IframeIdle /\ OtherIdle

\* the patch list while nothing is accepted
NextPatchMerge ==
    \/ \E from \in PatchPositions, to \in PatchPositions, text \in SuggestedTexts :
          AddSuggestedChange(from, to, text)
    \/ \E changeId \in PatchIds : RejectPatch(changeId)
    \/ \E changeIds \in SUBSET {suggestedChanges[i].id : i \in 1..Len(suggestedChanges)} :
          BatchRemoveChanges(changeIds)
    \/ ClearAllChanges

SpecPatchMerge == InitPatch /\ [][NextPatchMerge]_vars

NextPatch ==
    \/ \E from \in PatchPositions, to \in PatchPositions, text \in SuggestedTexts :
          AddSuggestedChange(from, to, text)
    \/ \E changeId \in PatchIds : AcceptPatch(changeId)
    \/ \E changeId \in PatchIds : AcceptPatchFolded(changeId)
    \/ \E changeId \in PatchIds : RejectPatch(changeId)
    \/ \E changeIds \in SUBSET {suggestedChanges[i].id : i \in 1..Len(suggestedChanges)} :
          BatchRemoveChanges(changeIds)
    \/ ClearAllChanges

SpecPatch == InitPatch /\ [][NextPatch]_vars

\* the numbers of the changes an entry of the merged list was formed from
Members(entry) == {entry.id[k] : k \in 1..Len(entry.id)}

\* two ranges overlap or touch
Touching(a, b) == a.from <= b.to /\ b.from <= a.to

\* the changes linked to those of `group` by a chain of touching ranges
RECURSIVE LinkedTo(_, _)
LinkedTo(changes, group) ==
    LET wider == group \cup {j \in 1..Len(changes) :
                                \E i \in group : Touching(changes[i], changes[j])}
    IN  IF wider = group THEN group ELSE LinkedTo(changes, wider)

SetMin(S) == CHOOSE x \in S : \A y \in S : x <= y

SetMax(S) == CHOOSE x \in S : \A y \in S : x >= y

\* C35: mergeOverlappingChanges puts two pending changes into the same merged
\* entry exactly when a chain of overlapping or touching ranges links them;
\* consecutive entries are sorted by from and separated by a gap; an entry
\* covers the least from to the greatest to of its members, and its
\* originalText is that slice of the original document.
MergedGroupsAreChains ==
    LET changes == suggestedChanges
        merged == mergedSuggestedChanges
        EntryOf(i) == {k \in 1..Len(merged) : changes[i].id[1] \in Members(merged[k])}
    IN  /\ \A i \in 1..Len(changes) : Cardinality(EntryOf(i)) = 1
        /\ \A i, j \in 1..Len(changes) :
              (EntryOf(i) = EntryOf(j)) <=> (j \in LinkedTo(changes, {i}))
        /\ \A k \in 1..(Len(merged) - 1) : merged[k + 1].from > merged[k].to
        /\ \A k \in 1..Len(merged) :
              LET members == {i \in 1..Len(changes) : changes[i].id[1] \in Members(merged[k])}
              IN  /\ members # {}
                  /\ merged[k].from = SetMin({changes[i].from : i \in members})
                  /\ merged[k].to = SetMax({changes[i].to : i \in members})
                  /\ merged[k].originalText =
                        Slice(originalDocument, merged[k].from, merged[k].to)

\* three changes in one entry, two of which only the third links
MergedGroupsAreChainsWitness ==
    /\ Len(suggestedChanges) = 3
    /\ Len(mergedSuggestedChanges) = 1
    /\ \E i, j \in 1..3 : ~Touching(suggestedChanges[i], suggestedChanges[j])
    /\ mergedSuggestedChanges[1].originalText = PatchDocument

\* C36: after an accept of a merged entry, one formed from two or more
\* pending changes, none of the changes it was formed from is pending, and
\* the merged list has no entry with one of them.
AcceptedMergedIsGone ==
    (lastPatch.op = "accept" /\ Len(lastPatch.id) > 1)
        => /\ \A i \in 1..Len(suggestedChanges) :
                 suggestedChanges[i].id[1] \notin {lastPatch.id[k] : k \in 1..Len(lastPatch.id)}
           /\ \A k \in 1..Len(mergedSuggestedChanges) :
                 Members(mergedSuggestedChanges[k])
                     \cap {lastPatch.id[j] : j \in 1..Len(lastPatch.id)} = {}

\* C37: the merged list and the computed document agree: replacing, back to
\* front, the range of each entry of mergedSuggestedChanges by the entry's
\* suggestedText in the original document gives modifiedDocument.
MergedListGivesModifiedDocument ==
    ApplyChanges(originalDocument, SortByFromDesc(mergedSuggestedChanges)) = modifiedDocument

\* two ranges share no position and are not the same point
Overlapping(r, c) ==
    IF r.from = r.to \/ c.from = c.to
    THEN (c.from < r.from /\ r.from < c.to) \/ (r.from < c.from /\ c.from < r.to)
         \/ (r.from = c.from /\ r.to = c.to)
    ELSE r.from < c.to /\ c.from < r.to

\* a change denotes its text in a document
Denotes(r, document) == Slice(document, r.from, r.to) = r.originalText

\* C38: when a change c is accepted and its text folded into the original
\* document, every remaining pending change that does not overlap c and
\* denoted its text before still denotes it, also when it starts at c.to.
RemainingStillDenote ==
    [][\A changeId \in PatchIds :
          AcceptPatchFolded(changeId) =>
              LET c == FindChange(suggestedChanges, changeId)
              IN  \A i \in 1..Len(suggestedChanges), j \in 1..Len(suggestedChanges') :
                     (/\ suggestedChanges'[j].id = suggestedChanges[i].id
                      /\ ~Overlapping(suggestedChanges[i], c)
                      /\ Denotes(suggestedChanges[i], originalDocument))
                         => Denotes(suggestedChanges'[j], originalDocument')]_vars

\* ------------------------------------------------------------- hover controls
MaxTimers == 3

\* where the pointer can be: on the text of a change, on its widget, on the
\* rest of the page, or off the window
Places ==
    {Nowhere, [on |-> "away", change |-> "none"]}
    \cup {[on |-> o, change |-> c] : o \in {"text", "widget"}, c \in HoverChanges}

\* a widget that is not displayed has no box the pointer can be on
Reachable(place) == place.on = "widget" => display[place.change]

clearTimeoutKept(pendingTimers, id) == pendingTimers

\* clearTimeout(hideTimeout)
clearTimeout(pendingTimers, id) == {t \in pendingTimers : t.id # id}

\* window.setTimeout(() => { ... }, 200) for a widget
setTimeout(widget) ==
    /\ timerCount < MaxTimers
    /\ timerCount' = timerCount + 1
    /\ timers' = timers \cup {[id |-> timerCount + 1, widget |-> widget]}
    /\ hideTimeout' = timerCount + 1

\* the pointer moves to another place; `timer` is the timer set by the move,
\* -1 if it set none
PointerMoves(to, timer) ==
    /\ ~entering
    /\ to \in Places \ {pointer}
    /\ Reachable(to)
    /\ pointer' = to
    /\ entering' = (to.on \in {"text", "widget"})
    /\ leftAt' = [c \in HoverChanges |->
                     IF to.change = c THEN 0
                     ELSE IF pointer.change = c THEN timer
                     ELSE leftAt[c]]

\* hoverExtension mouseout: the pointer leaves the text of a change
mouseout(c, relatedTarget) ==
    /\ pointer = [on |-> "text", change |-> c]
    /\ IF relatedTarget.on # "away" /\ relatedTarget # [on |-> "widget", change |-> c]
       THEN /\ setTimeout(c)
            /\ PointerMoves(relatedTarget, timerCount + 1)
       ELSE /\ UNCHANGED <<timers, timerCount, hideTimeout>>
            /\ PointerMoves(relatedTarget, -1)
    /\ UNCHANGED <<display, currentVisibleWidget>>
    /\ UNCHANGED <<diffVars, storeVars, docVars, bridgeVars, apiVars, iframeVars, hoverRest>>

\* the container's mouseleave listener: the pointer leaves a widget
mouseleave(c, relatedTarget) ==
    /\ pointer = [on |-> "widget", change |-> c]
    /\ setTimeout(c)
    /\ PointerMoves(relatedTarget, timerCount + 1)
    /\ UNCHANGED <<display, currentVisibleWidget>>
    /\ UNCHANGED <<diffVars, storeVars, docVars, bridgeVars, apiVars, iframeVars, hoverRest>>

\* the pointer moves from a place without a handler
PointerDrifts(to) ==
    /\ pointer.on \in {"outside", "away"}
    /\ PointerMoves(to, -1)
    /\ UNCHANGED <<display, currentVisibleWidget, hideTimeout, timers, timerCount>>
    /\ UNCHANGED <<diffVars, storeVars, docVars, bridgeVars, apiVars, iframeVars, hoverRest>>

\* hoverExtension mouseover: the pointer arrives on the text of a change
mouseover(c) ==
    /\ entering
    /\ pointer = [on |-> "text", change |-> c]
    /\ entering' = FALSE
    /\ timers' = IF hideTimeout # 0 THEN clearTimeout(timers, hideTimeout) ELSE timers
    /\ hideTimeout' = 0
    /\ display' = [d \in HoverChanges |->
                      IF d = c THEN TRUE
                      ELSE IF d = currentVisibleWidget THEN FALSE
                      ELSE display[d]]
    /\ currentVisibleWidget' = c
    /\ UNCHANGED <<pointer, timerCount, leftAt>>
    /\ UNCHANGED <<diffVars, storeVars, docVars, bridgeVars, apiVars, iframeVars, hoverRest>>

\* the container's mouseenter listener: the pointer arrives on a widget
mouseenter(c) ==
    /\ entering
    /\ pointer = [on |-> "widget", change |-> c]
    /\ entering' = FALSE
    /\ timers' = IF hideTimeout # 0 THEN clearTimeout(timers, hideTimeout) ELSE timers
    /\ hideTimeout' = 0
    /\ display' = [display EXCEPT ![c] = TRUE]
    /\ currentVisibleWidget' = c
    /\ UNCHANGED <<pointer, timerCount, leftAt>>
    /\ UNCHANGED <<diffVars, storeVars, docVars, bridgeVars, apiVars, iframeVars, hoverRest>>

\* the function of a timer runs, 200 ms after it was set; the two events of
\* one move of the pointer are dispatched together, no timer runs between them
TimerFires(t) ==
    /\ ~entering
    /\ t \in timers
    /\ timers' = timers \ {t}
    /\ IF currentVisibleWidget = t.widget
       THEN /\ display' = [display EXCEPT ![t.widget] = FALSE]
            /\ currentVisibleWidget' = "null"
       ELSE UNCHANGED <<display, currentVisibleWidget>>
    /\ hideTimeout' = 0
    /\ UNCHANGED <<pointer, entering, timerCount, leftAt>>
    /\ UNCHANGED <<diffVars, storeVars, docVars, bridgeVars, apiVars, iframeVars, hoverRest>>

InitHover ==
    StoreIdle /\ DiffIdle /\ DocsIdle /\ BridgeIdle /\ ApiIdle /\ IframeIdle /\ OtherIdle

NextHover ==
    \/ \E c \in HoverChanges, relatedTarget \in Places : mouseout(c, relatedTarget)
    \/ \E c \in HoverChanges, relatedTarget \in Places : mouseleave(c, relatedTarget)
    \/ \E to \in Places : PointerDrifts(to)
    \/ \E c \in HoverChanges : mouseover(c)
    \/ \E c \in HoverChanges : mouseenter(c)
    \/ \E t \in timers : TimerFires(t)

SpecHover == InitHover /\ [][NextHover]_vars

\* the widget of the change the pointer is on is displayed
HoverWidgetShown ==
    \A c \in HoverChanges : (~entering /\ pointer.change = c) => display[c]

AtMostOneWidget == Cardinality({c \in HoverChanges : display[c]}) <= 1

\* the timer that was set when the pointer last left the text and the widget
\* of c runs and hides the widget
HiddenByItsTimer(c) ==
    \E t \in timers : TimerFires(t) /\ t.widget = c /\ leftAt[c] = t.id

\* C39 as stated: the widget of the change the pointer is on is displayed, at
\* most one widget is displayed, and a widget is hidden only by the timer set
\* when the pointer left both its text and itself, 200 ms after.
HoverHiddenOnlyAfterDelay ==
    /\ [](HoverWidgetShown /\ AtMostOneWidget)
    /\ [][\A c \in HoverChanges : (display[c] /\ ~display'[c]) => HiddenByItsTimer(c)]_vars

\* C39: the widget of the change the pointer is on is displayed, at most one
\* widget is displayed, and a widget is hidden only by the timer set when the
\* pointer left both its text and itself, 200 ms after, or at once when the
\* pointer arrives on the text of another change.
HoverHiddenAfterDelayOrByNext ==
    /\ [](HoverWidgetShown /\ AtMostOneWidget)
    /\ [][\A c \in HoverChanges :
             (display[c] /\ ~display'[c])
                 => \/ HiddenByItsTimer(c)
                    \/ \E d \in HoverChanges \ {c} : mouseover(d)]_vars

\* the pointer was on A only, left it, and the timer hid the widget
HoverHiddenAfterDelayOrByNextWitness ==
    /\ pointer = Nowhere
    /\ leftAt["A"] > 0
    /\ leftAt["B"] = 0
    /\ ~display["A"]
    /\ timerCount >= 2
    /\ timers = {}

====
